---- MODULE Spec2Model ----
(***************************************************************************)
(* Model of the confluence alert engine of alert_IQ                        *)
(* (src/tools/confluence_alert_engine.py) together with the parts of the   *)
(* volume / open-interest engine (src/tools/volume_oi_engine.py) whose     *)
(* results it consumes.                                                    *)
(*                                                                         *)
(* Units.  percentage_diff (EMA distance) is carried in tenths of a        *)
(* percent, so that the 1.5 % confluence threshold is the integer 15.      *)
(* volume_spike_pct, oi_change_1p and oi_change_5p are whole percents.     *)
(* Time is whole seconds.                                                  *)
(***************************************************************************)
EXTENDS Integers, Sequences, FiniteSets, TLC

VARIABLES
    now,                \* time.time(), seconds
    ticks,              \* number of clock advances so far (bounds the run)
    failures,           \* number of failed notify calls so far (bounds the run)
    last_alerts,        \* self.last_alerts : alert_key -> time
    pc,                 \* position of run_confluence_analysis
    ema_data,           \* result of ema_engine.analyze_ema
    volume_data,        \* result of volume_engine.analyze_volume_oi
    price_context,      \* result of check_price_context
    all_alerts,         \* the cycle's alert list
    idx,                \* position of the notification loop in all_alerts
    notifications_sent, \* the loop's counter
    result,             \* what the last finished cycle returned
    log,                \* history: every call of notification.notify
    cycle_start,        \* history: last_alerts when the running cycle began
    oi_src,             \* the OI data source of the open-interest computation
    drift,              \* the alert kind and timeframe whose metric hovers
    net,                \* the HTTP requests of the cycle's fetches
    ema_src             \* what the EMA engine's requests deliver

vars == <<now, ticks, failures, last_alerts, pc, ema_data, volume_data, price_context,
          all_alerts, idx, notifications_sent, result, log, cycle_start,
          oi_src, drift, net, ema_src>>

----------------------------------------------------------------------------
(* Bounds of the model *)

MaxTicks == 2

MaxFailures == 1

----------------------------------------------------------------------------
(* Program constants *)

TIMEFRAMES == <<"15m", "1h", "4h", "1d">>

TF == {"15m", "1h", "4h", "1d"}

alert_cooldown == 300

\* volume_oi_engine.VOLUME_CONFIGS: the threshold behind is_volume_spike
VOLUME_CONFIGS ==
    [t \in TF |->
        CASE t = "15m" -> [spike_threshold |-> 50]
          [] t = "1h"  -> [spike_threshold |-> 75]
          [] t = "4h"  -> [spike_threshold |-> 100]
          [] t = "1d"  -> [spike_threshold |-> 50]]

\* ConfluenceAlertEngine.volume_alert_config
volume_alert_config ==
    [t \in TF |->
        CASE t = "15m" -> [spike_threshold |-> 100, low_threshold |-> -80]
          [] t = "1h"  -> [spike_threshold |-> 150, low_threshold |-> -70]
          [] t = "4h"  -> [spike_threshold |-> 200, low_threshold |-> -85]
          [] t = "1d"  -> [spike_threshold |-> 100, low_threshold |-> -60]]

\* ConfluenceAlertEngine.oi_alert_config
oi_alert_config == [change_threshold |-> 25, surge_threshold |-> 50]

\* ConfluenceAlertEngine.context_requirements (EMA distances in tenths of %)
context_requirements ==
    [min_price_change   |-> 20,
     min_volume_for_oi  |-> 75,
     ema_confluence_min |-> 15,
     multi_tf_threshold |-> 3]

\* priority_order of run_confluence_analysis
priority_order ==
    [p \in {"critical", "high", "medium", "low"} |->
        CASE p = "critical" -> 0
          [] p = "high"     -> 1
          [] p = "medium"   -> 2
          [] p = "low"      -> 3]

----------------------------------------------------------------------------
(* Helpers *)

Abs(x) == IF x < 0 THEN -x ELSE x

\* a key that carries the whole percent itself: int(x)
Band_exact(x, w) == x

\* int(x / w) * w for x >= 0 : the severity band of an alert key
Band(x, w) == (x \div w) * w

\* the keys that carry no band
NoBand == 0 - 1

\* a key that leaves the timeframe out
Key_no_timeframe(kind, tf, band) == <<kind, "", band>>

\* f"{kind}_{tf}_{band}" : the string is determined by, and determines, the
\* three parts
Key(kind, tf, band) == <<kind, tf, band>>

Alert(type, tf, priority, key) ==
    [type |-> type, timeframe |-> tf, priority |-> priority, alert_key |-> key]

\* an engine's entry of one timeframe
EmaError == [error |-> TRUE, percentage_diff |-> 0, above_ema |-> FALSE]

\* analyze_ema: above_ema is pct_diff > 0
EmaEntry(pd) == [error |-> FALSE, percentage_diff |-> pd, above_ema |-> pd > 0]

VolError ==
    [error |-> TRUE, volume_spike_pct |-> 0, is_volume_spike |-> FALSE,
     oi_change_1p |-> 0, oi_change_5p |-> 0, divergence |-> "none"]

\* analyze_volume_oi: is_volume_spike is volume_spike_pct >= the engine's
\* own threshold of the timeframe
VolEntry(tf, spike, oi1, oi5, div) ==
    [error |-> FALSE, volume_spike_pct |-> spike,
     is_volume_spike |-> spike >= VOLUME_CONFIGS[tf].spike_threshold,
     oi_change_1p |-> oi1, oi_change_5p |-> oi5, divergence |-> div]

----------------------------------------------------------------------------
(* The rule pipeline of ConfluenceAlertEngine *)

\* the price context with the move test open at 2 %: > for >=
check_price_context_strict(ed) ==
    LET valid1h == ~ed["1h"].error
        ema_pct == Abs(ed["1h"].percentage_diff)
        sig     == valid1h /\ ema_pct > context_requirements.min_price_change
    IN  [significant_move |-> sig,
         price_change_1h  |-> IF valid1h THEN ema_pct ELSE 0,
         trend_strength   |-> IF sig
                              THEN (IF ema_pct >= 30 THEN "strong" ELSE "moderate")
                              ELSE "weak",
         above_ema_count  |->
             Cardinality({t \in TF : ~ed[t].error /\ ed[t].above_ema})]

\* check_price_context: the 1h EMA distance stands in for the price move
check_price_context(ed) ==
    LET valid1h == ~ed["1h"].error
        ema_pct == Abs(ed["1h"].percentage_diff)
        sig     == valid1h /\ ema_pct >= context_requirements.min_price_change
    IN  [significant_move |-> sig,
         price_change_1h  |-> IF valid1h THEN ema_pct ELSE 0,
         trend_strength   |-> IF sig
                              THEN (IF ema_pct >= 30 THEN "strong" ELSE "moderate")
                              ELSE "weak",
         above_ema_count  |->
             Cardinality({t \in TF : ~ed[t].error /\ ed[t].above_ema})]

\* the volume rule with the critical band open at its lower end: > for >=
VolumeAlertsOf_strict(vd, tf) ==
    LET data == vd[tf]
        spike_threshold  == volume_alert_config[tf].spike_threshold
        low_threshold    == volume_alert_config[tf].low_threshold
        volume_spike_pct == data.volume_spike_pct
    IN  IF data.error THEN <<>>
        ELSE IF volume_spike_pct >= spike_threshold
        THEN <<Alert("volume_spike", tf,
                     IF volume_spike_pct > spike_threshold * 2
                     THEN "critical" ELSE "high",
                     Key("volume_spike", tf, Band(volume_spike_pct, 20)))>>
        ELSE IF volume_spike_pct <= low_threshold
        THEN <<Alert("volume_low", tf, "medium",
                     Key("volume_low", tf, Band(Abs(volume_spike_pct), 20)))>>
        ELSE <<>>

\* the volume rule reading the spike threshold of the volume engine, the one
\* behind is_volume_spike
VolumeAlertsOf_engine_threshold(vd, tf) ==
    LET data == vd[tf]
        spike_threshold  == VOLUME_CONFIGS[tf].spike_threshold
        low_threshold    == volume_alert_config[tf].low_threshold
        volume_spike_pct == data.volume_spike_pct
    IN  IF data.error THEN <<>>
        ELSE IF volume_spike_pct >= spike_threshold
        THEN <<Alert("volume_spike", tf,
                     IF volume_spike_pct >= spike_threshold * 2
                     THEN "critical" ELSE "high",
                     Key("volume_spike", tf, Band(volume_spike_pct, 20)))>>
        ELSE IF volume_spike_pct <= low_threshold
        THEN <<Alert("volume_low", tf, "medium",
                     Key("volume_low", tf, Band(Abs(volume_spike_pct), 20)))>>
        ELSE <<>>

\* check_volume_alerts: one timeframe of the loop
VolumeAlertsOf(vd, tf) ==
    LET data == vd[tf]
        spike_threshold  == volume_alert_config[tf].spike_threshold
        low_threshold    == volume_alert_config[tf].low_threshold
        volume_spike_pct == data.volume_spike_pct
    IN  IF data.error THEN <<>>
        ELSE IF volume_spike_pct >= spike_threshold
        THEN <<Alert("volume_spike", tf,
                     IF volume_spike_pct >= spike_threshold * 2
                     THEN "critical" ELSE "high",
                     Key("volume_spike", tf, Band(volume_spike_pct, 20)))>>
        ELSE IF volume_spike_pct <= low_threshold
        THEN <<Alert("volume_low", tf, "medium",
                     Key("volume_low", tf, Band(Abs(volume_spike_pct), 20)))>>
        ELSE <<>>

\* the loop runs over the dictionary in its insertion order, which is that
\* of TIMEFRAMES
check_volume_alerts(vd) ==
    VolumeAlertsOf(vd, "15m") \o VolumeAlertsOf(vd, "1h")
        \o VolumeAlertsOf(vd, "4h") \o VolumeAlertsOf(vd, "1d")

\* the gate left open: no volume confirmation asked for
OiVolumeConfirmed_open(data) == ~data.error

\* the gate of one timeframe in check_oi_alerts: volume confirmation
OiVolumeConfirmed(data) ==
    ~(data.volume_spike_pct < context_requirements.min_volume_for_oi)

\* the change test on the signed value: a falling OI never fires
OiChangeFires_signed(oi_change_1p) ==
    oi_change_1p >= oi_alert_config.change_threshold

\* the threshold tests of check_oi_alerts
OiChangeFires(oi_change_1p) ==
    Abs(oi_change_1p) >= oi_alert_config.change_threshold

OiSurgeFires(oi_change_5p) ==
    Abs(oi_change_5p) >= oi_alert_config.surge_threshold

\* check_oi_alerts: one timeframe of the loop
OiAlertsOf(vd, tf) ==
    LET data == vd[tf]
        oi_change_1p == data.oi_change_1p
        oi_change_5p == data.oi_change_5p
    IN  IF data.error THEN <<>>
        ELSE IF ~OiVolumeConfirmed(data) THEN <<>>
        ELSE (IF OiChangeFires(oi_change_1p)
              THEN <<Alert("oi_change", tf, "critical",
                           Key("oi_change", tf, Band(Abs(oi_change_1p), 15)))>>
              ELSE <<>>)
             \o
             (IF OiSurgeFires(oi_change_5p)
              THEN <<Alert("oi_surge", tf, "critical",
                           Key("oi_surge", tf, Band(Abs(oi_change_5p), 25)))>>
              ELSE <<>>)

\* the OI rule without its early return on the price context
check_oi_alerts_ungated(vd, ctx) ==
    OiAlertsOf(vd, "15m") \o OiAlertsOf(vd, "1h")
        \o OiAlertsOf(vd, "4h") \o OiAlertsOf(vd, "1d")

check_oi_alerts(vd, ctx) ==
    IF ~ctx.significant_move THEN <<>>
    ELSE OiAlertsOf(vd, "15m") \o OiAlertsOf(vd, "1h")
        \o OiAlertsOf(vd, "4h") \o OiAlertsOf(vd, "1d")

\* the confluence rule grading its alerts like the volume rule does: critical
\* from twice the timeframe's spike threshold on
EmaConfluenceOf_spike_priority(ed, vd, ctx, tf) ==
    IF ed[tf].error \/ vd[tf].error THEN <<>>
    ELSE
    LET above_ema    == ed[tf].above_ema
        ema_pct      == ed[tf].percentage_diff
        volume_spike == vd[tf].is_volume_spike
        volume_pct   == vd[tf].volume_spike_pct
        min_ema_distance == context_requirements.ema_confluence_min
        prio == IF volume_pct >= volume_alert_config[tf].spike_threshold * 2
                THEN "critical" ELSE "high"
    IN  IF above_ema /\ volume_spike /\ ema_pct > min_ema_distance
           /\ volume_pct > 100 /\ ctx.significant_move
        THEN <<Alert("bullish_confluence", tf, prio,
                     Key("bullish_confluence", tf, NoBand))>>
        ELSE IF ~above_ema /\ volume_spike /\ Abs(ema_pct) > min_ema_distance
                /\ volume_pct > 100 /\ ctx.significant_move
        THEN <<Alert("bearish_confluence", tf, prio,
                     Key("bearish_confluence", tf, NoBand))>>
        ELSE <<>>

\* the confluence rule asking for the volume of a critical alert
EmaConfluenceOf_strict_volume(ed, vd, ctx, tf) ==
    IF ed[tf].error \/ vd[tf].error THEN <<>>
    ELSE
    LET above_ema    == ed[tf].above_ema
        ema_pct      == ed[tf].percentage_diff
        volume_spike == vd[tf].is_volume_spike
        volume_pct   == vd[tf].volume_spike_pct
        min_ema_distance == context_requirements.ema_confluence_min
        prio == IF volume_pct > 200 THEN "critical" ELSE "high"
    IN  IF above_ema /\ volume_spike /\ ema_pct > min_ema_distance
           /\ volume_pct > 200 /\ ctx.significant_move
        THEN <<Alert("bullish_confluence", tf, prio,
                     Key("bullish_confluence", tf, NoBand))>>
        ELSE IF ~above_ema /\ volume_spike /\ Abs(ema_pct) > min_ema_distance
                /\ volume_pct > 200 /\ ctx.significant_move
        THEN <<Alert("bearish_confluence", tf, prio,
                     Key("bearish_confluence", tf, NoBand))>>
        ELSE <<>>

\* the confluence rule with the EMA distance test closed at 1.5 %: >= for >
EmaConfluenceOf_inclusive(ed, vd, ctx, tf) ==
    IF ed[tf].error \/ vd[tf].error THEN <<>>
    ELSE
    LET above_ema    == ed[tf].above_ema
        ema_pct      == ed[tf].percentage_diff
        volume_spike == vd[tf].is_volume_spike
        volume_pct   == vd[tf].volume_spike_pct
        min_ema_distance == context_requirements.ema_confluence_min
        prio == IF volume_pct > 200 THEN "critical" ELSE "high"
    IN  IF above_ema /\ volume_spike /\ ema_pct >= min_ema_distance
           /\ volume_pct > 100 /\ ctx.significant_move
        THEN <<Alert("bullish_confluence", tf, prio,
                     Key("bullish_confluence", tf, NoBand))>>
        ELSE IF ~above_ema /\ volume_spike /\ Abs(ema_pct) >= min_ema_distance
                /\ volume_pct > 100 /\ ctx.significant_move
        THEN <<Alert("bearish_confluence", tf, prio,
                     Key("bearish_confluence", tf, NoBand))>>
        ELSE <<>>

\* check_ema_confluence_alerts: one timeframe of the loop
EmaConfluenceOf(ed, vd, ctx, tf) ==
    IF ed[tf].error \/ vd[tf].error THEN <<>>
    ELSE
    LET above_ema    == ed[tf].above_ema
        ema_pct      == ed[tf].percentage_diff
        volume_spike == vd[tf].is_volume_spike
        volume_pct   == vd[tf].volume_spike_pct
        min_ema_distance == context_requirements.ema_confluence_min
        prio == IF volume_pct > 200 THEN "critical" ELSE "high"
    IN  IF above_ema /\ volume_spike /\ ema_pct > min_ema_distance
           /\ volume_pct > 100 /\ ctx.significant_move
        THEN <<Alert("bullish_confluence", tf, prio,
                     Key("bullish_confluence", tf, NoBand))>>
        ELSE IF ~above_ema /\ volume_spike /\ Abs(ema_pct) > min_ema_distance
                /\ volume_pct > 100 /\ ctx.significant_move
        THEN <<Alert("bearish_confluence", tf, prio,
                     Key("bearish_confluence", tf, NoBand))>>
        ELSE <<>>

check_ema_confluence_alerts(ed, vd, ctx) ==
    EmaConfluenceOf(ed, vd, ctx, "15m") \o EmaConfluenceOf(ed, vd, ctx, "1h")
        \o EmaConfluenceOf(ed, vd, ctx, "4h") \o EmaConfluenceOf(ed, vd, ctx, "1d")

\* the triple rule taking a falling open interest for a rising one
TripleConfluenceOf_abs_oi(ed, vd, tf) ==
    IF ed[tf].error \/ vd[tf].error THEN <<>>
    ELSE
    LET above_ema    == ed[tf].above_ema
        ema_pct      == ed[tf].percentage_diff
        volume_spike == vd[tf].is_volume_spike
        volume_pct   == vd[tf].volume_spike_pct
        oi_change    == vd[tf].oi_change_1p
    IN  IF above_ema /\ volume_spike /\ Abs(oi_change) > 15
           /\ ema_pct > 20 /\ volume_pct > 150
        THEN <<Alert("triple_bullish_confluence", tf, "critical",
                     Key("triple_bullish", tf, NoBand))>>
        ELSE IF ~above_ema /\ volume_spike /\ Abs(oi_change) > 15
                /\ Abs(ema_pct) > 20 /\ volume_pct > 150
        THEN <<Alert("triple_bearish_confluence", tf, "critical",
                     Key("triple_bearish", tf, NoBand))>>
        ELSE <<>>

\* check_triple_confluence_alerts: one timeframe of the loop
TripleConfluenceOf(ed, vd, tf) ==
    IF ed[tf].error \/ vd[tf].error THEN <<>>
    ELSE
    LET above_ema    == ed[tf].above_ema
        ema_pct      == ed[tf].percentage_diff
        volume_spike == vd[tf].is_volume_spike
        volume_pct   == vd[tf].volume_spike_pct
        oi_change    == vd[tf].oi_change_1p
    IN  IF above_ema /\ volume_spike /\ oi_change > 15
           /\ ema_pct > 20 /\ volume_pct > 150
        THEN <<Alert("triple_bullish_confluence", tf, "critical",
                     Key("triple_bullish", tf, NoBand))>>
        ELSE IF ~above_ema /\ volume_spike /\ oi_change > 15
                /\ Abs(ema_pct) > 20 /\ volume_pct > 150
        THEN <<Alert("triple_bearish_confluence", tf, "critical",
                     Key("triple_bearish", tf, NoBand))>>
        ELSE <<>>

\* the loop runs over 1h, 4h and 1d only
check_triple_confluence_alerts(ed, vd) ==
    TripleConfluenceOf(ed, vd, "1h") \o TripleConfluenceOf(ed, vd, "4h")
        \o TripleConfluenceOf(ed, vd, "1d")

\* the divergence rule grading a reversal like a bearish divergence
DivergenceOf_medium(vd, tf) ==
    LET data == vd[tf] IN
    IF data.error THEN <<>>
    ELSE IF data.divergence = "bearish_divergence"
    THEN <<Alert("bearish_divergence", tf, "medium",
                 Key("bearish_div", tf, NoBand))>>
    ELSE IF data.divergence = "potential_reversal"
    THEN <<Alert("potential_reversal", tf, "medium",
                 Key("reversal", tf, NoBand))>>
    ELSE <<>>

\* check_divergence_alerts: one timeframe of the loop
DivergenceOf(vd, tf) ==
    LET data == vd[tf] IN
    IF data.error THEN <<>>
    ELSE IF data.divergence = "bearish_divergence"
    THEN <<Alert("bearish_divergence", tf, "medium",
                 Key("bearish_div", tf, NoBand))>>
    ELSE IF data.divergence = "potential_reversal"
    THEN <<Alert("potential_reversal", tf, "high",
                 Key("reversal", tf, NoBand))>>
    ELSE <<>>

check_divergence_alerts(vd) ==
    DivergenceOf(vd, "15m") \o DivergenceOf(vd, "1h")
        \o DivergenceOf(vd, "4h") \o DivergenceOf(vd, "1d")

\* the alignment rule without its volume test
check_multi_timeframe_alerts_no_volume(ed, vd) ==
    LET valid == {t \in TF : ~ed[t].error /\ ~vd[t].error}
        valid_timeframes  == Cardinality(valid)
        bullish_ema_count == Cardinality({t \in valid : ed[t].above_ema})
        bearish_ema_count == Cardinality({t \in valid : ~ed[t].above_ema})
    IN  IF valid_timeframes >= 3
        THEN IF bullish_ema_count >= 3
             THEN <<Alert("multi_tf_bullish", "multi", "critical",
                          Key("multi_tf_bullish", "multi", NoBand))>>
             ELSE IF bearish_ema_count >= 3
             THEN <<Alert("multi_tf_bearish", "multi", "critical",
                          Key("multi_tf_bearish", "multi", NoBand))>>
             ELSE <<>>
        ELSE <<>>

\* check_multi_timeframe_alerts
check_multi_timeframe_alerts(ed, vd) ==
    LET valid == {t \in TF : ~ed[t].error /\ ~vd[t].error}
        valid_timeframes  == Cardinality(valid)
        bullish_ema_count == Cardinality({t \in valid : ed[t].above_ema})
        bearish_ema_count == Cardinality({t \in valid : ~ed[t].above_ema})
        volume_spike_count == Cardinality({t \in valid : vd[t].is_volume_spike})
    IN  IF valid_timeframes >= 3
        THEN IF bullish_ema_count >= 3 /\ volume_spike_count >= 2
             THEN <<Alert("multi_tf_bullish", "multi", "critical",
                          Key("multi_tf_bullish", "multi", NoBand))>>
             ELSE IF bearish_ema_count >= 3 /\ volume_spike_count >= 2
             THEN <<Alert("multi_tf_bearish", "multi", "critical",
                          Key("multi_tf_bearish", "multi", NoBand))>>
             ELSE <<>>
        ELSE <<>>

\* the pipeline dropping a timeframe from every rule as soon as either engine
\* failed on it
CollectAlerts_both_valid(ed, vd, ctx) ==
    LET both == [t \in TF |-> IF ed[t].error THEN VolError ELSE vd[t]] IN
    check_volume_alerts(both)
    \o check_oi_alerts(both, ctx)
    \o check_ema_confluence_alerts(ed, vd, ctx)
    \o (IF ctx.significant_move
        THEN check_triple_confluence_alerts(ed, vd) ELSE <<>>)
    \o check_divergence_alerts(both)
    \o (IF ctx.above_ema_count >= 3
        THEN check_multi_timeframe_alerts(ed, vd) ELSE <<>>)

\* the pipeline running the alignment rule as soon as one timeframe is above
\* its EMA
CollectAlerts_loose_gate(ed, vd, ctx) ==
    check_volume_alerts(vd)
    \o check_oi_alerts(vd, ctx)
    \o check_ema_confluence_alerts(ed, vd, ctx)
    \o (IF ctx.significant_move
        THEN check_triple_confluence_alerts(ed, vd) ELSE <<>>)
    \o check_divergence_alerts(vd)
    \o (IF ctx.above_ema_count >= 1
        THEN check_multi_timeframe_alerts(ed, vd) ELSE <<>>)

\* the pipeline running the alignment rule in every cycle
CollectAlerts_ungated(ed, vd, ctx) ==
    check_volume_alerts(vd)
    \o check_oi_alerts(vd, ctx)
    \o check_ema_confluence_alerts(ed, vd, ctx)
    \o (IF ctx.significant_move
        THEN check_triple_confluence_alerts(ed, vd) ELSE <<>>)
    \o check_divergence_alerts(vd)
    \o check_multi_timeframe_alerts(ed, vd)

\* all_alerts before the sort: the rules' results in the order they are
\* appended by run_confluence_analysis
CollectAlerts(ed, vd, ctx) ==
    check_volume_alerts(vd)
    \o check_oi_alerts(vd, ctx)
    \o check_ema_confluence_alerts(ed, vd, ctx)
    \o (IF ctx.significant_move
        THEN check_triple_confluence_alerts(ed, vd) ELSE <<>>)
    \o check_divergence_alerts(vd)
    \o (IF ctx.above_ema_count >= 3
        THEN check_multi_timeframe_alerts(ed, vd) ELSE <<>>)

\* an insertion that places an element before its equals: not stable
RECURSIVE InsertByKey_unstable(_, _)
InsertByKey_unstable(sorted, a) ==
    IF sorted = <<>> THEN <<a>>
    ELSE IF priority_order[sorted[Len(sorted)].priority]
              < priority_order[a.priority]
         THEN Append(sorted, a)
         ELSE Append(InsertByKey_unstable(SubSeq(sorted, 1, Len(sorted) - 1),
                                          a),
                     sorted[Len(sorted)])

\* list.sort(key=...) places an element after every element whose key is
\* not greater: the sort is stable
RECURSIVE InsertByKey(_, _)
InsertByKey(sorted, a) ==
    IF sorted = <<>> THEN <<a>>
    ELSE IF priority_order[sorted[Len(sorted)].priority]
              <= priority_order[a.priority]
         THEN Append(sorted, a)
         ELSE Append(InsertByKey(SubSeq(sorted, 1, Len(sorted) - 1), a),
                     sorted[Len(sorted)])

RECURSIVE SortByPriority(_)
SortByPriority(s) ==
    IF s = <<>> THEN <<>>
    ELSE InsertByKey(SortByPriority(SubSeq(s, 1, Len(s) - 1)), s[Len(s)])

----------------------------------------------------------------------------
(* Open interest in VolumeOIEngine *)

\* random.uniform(-0.05, 0.05), in percent: the two ends and the middle
Variations == {0 - 5, 0, 5}

\* the simulated history of fetch_historical_oi: range(20) steps, each
\* multiplying the running base by 1 + variation.  walk.v1 is the variation
\* of the first walk.k steps, walk.v2 that of the others.
RECURSIVE SimulatedHistory(_, _, _)
SimulatedHistory(base_oi, walk, i) ==
    IF i >= 20 THEN <<>>
    ELSE LET variation == IF i < walk.k THEN walk.v1 ELSE walk.v2
             next      == (base_oi * (100 + variation)) \div 100
         IN  <<next>> \o SimulatedHistory(next, walk, i + 1)

\* fetch_historical_oi.  src.h1_ok: the history endpoint answers 200 with a
\* non-empty result, src.h1 the open_interest values found in it (items
\* without a value are dropped, so the list can be empty); src.h2_ok and
\* src.h2 likewise for the stats endpoint; src.ticker_hist is what
\* fetch_current_oi returns to the third method (0 : None).
fetch_historical_oi(src) ==
    IF src.h1_ok THEN src.h1
    ELSE IF src.h2_ok THEN src.h2
    ELSE IF src.ticker_hist # 0
         THEN SimulatedHistory(src.ticker_hist, src.walk, 0)
         ELSE <<>>

\* ((current - old) / old) * 100 if old > 0 else 0, cut to a whole percent
PctChange(current, old) ==
    IF old > 0
    THEN (IF current >= old
          THEN ((current - old) * 100) \div old
          ELSE 0 - (((old - current) * 100) \div old))
    ELSE 0

\* calculate_oi_metrics, as analyze_volume_oi reads it through .get():
\* an error result and the two-field result of a one-element history both
\* read as oi_change_1p = 0 and oi_change_5p = 0
calculate_oi_metrics(historical_oi, current_oi) ==
    LET n == Len(historical_oi) IN
    IF historical_oi = <<>> \/ current_oi = 0
    THEN [error |-> TRUE, oi_change_1p |-> 0, oi_change_5p |-> 0]
    ELSE IF n < 2
    THEN [error |-> FALSE, oi_change_1p |-> 0, oi_change_5p |-> 0]
    ELSE [error |-> FALSE,
          oi_change_1p |-> PctChange(current_oi, historical_oi[n - 1]),
          oi_change_5p |-> IF n >= 6
                           THEN PctChange(current_oi, historical_oi[n - 5])
                           ELSE 0]

\* the volume entry analyze_volume_oi builds for src.tf out of the OI source
\* (fetch_volume_oi_data asks fetch_current_oi a second time: src.ticker_now)
OiEntryOf(src) ==
    LET m == calculate_oi_metrics(fetch_historical_oi(src), src.ticker_now)
    IN  VolEntry(src.tf, src.spike, m.oi_change_1p, m.oi_change_5p, "none")

----------------------------------------------------------------------------
(* Cooldown and notification *)

\* should_send_alert with the window closed at its end: <= for <
should_send_alert_inclusive(la, alert_key, current_time) ==
    IF alert_key \in DOMAIN la
       /\ current_time - la[alert_key] <= alert_cooldown
    THEN [send |-> FALSE, last_alerts |-> la]
    ELSE [send |-> TRUE,
          last_alerts |-> [k \in DOMAIN la \cup {alert_key} |->
                              IF k = alert_key THEN current_time ELSE la[k]]]

\* should_send_alert letting every alert through
should_send_alert_always(la, alert_key, current_time) ==
    [send |-> TRUE,
     last_alerts |-> [k \in DOMAIN la \cup {alert_key} |->
                         IF k = alert_key THEN current_time ELSE la[k]]]

\* should_send_alert: the verdict and the cooldown map it leaves behind
should_send_alert(la, alert_key, current_time) ==
    IF alert_key \in DOMAIN la
       /\ current_time - la[alert_key] < alert_cooldown
    THEN [send |-> FALSE, last_alerts |-> la]
    ELSE [send |-> TRUE,
          last_alerts |-> [k \in DOMAIN la \cup {alert_key} |->
                              IF k = alert_key THEN current_time ELSE la[k]]]

\* send_notification counting a suppressed alert as sent
send_notification_counts_suppressed(la, alert_key, current_time, notify_ok) ==
    LET s == should_send_alert(la, alert_key, current_time) IN
    [last_alerts |-> s.last_alerts,
     called      |-> s.send,
     returned    |-> notify_ok,
     raised      |-> FALSE]

\* send_notification without its try / except: a failing notify call
\* raises into run_confluence_analysis
send_notification_uncaught(la, alert_key, current_time, notify_ok) ==
    LET s == should_send_alert(la, alert_key, current_time) IN
    [last_alerts |-> s.last_alerts,
     called      |-> s.send,
     returned    |-> s.send /\ notify_ok,
     raised      |-> s.send /\ ~notify_ok]

\* send_notification.  notify_ok: notification.notify returns normally.
\* called: notify was invoked; returned: the method's return value;
\* raised: an exception leaves the method (none does: it is caught).
send_notification(la, alert_key, current_time, notify_ok) ==
    LET s == should_send_alert(la, alert_key, current_time) IN
    [last_alerts |-> s.last_alerts,
     called      |-> s.send,
     returned    |-> s.send /\ notify_ok,
     raised      |-> FALSE]

\* the test of the loop letting medium alerts through as well
NeedsNotification_medium(alert) ==
    alert.priority \in {"critical", "high", "medium"}

\* the test of the notification loop
NeedsNotification(alert) == alert.priority \in {"critical", "high"}

----------------------------------------------------------------------------
(* Inputs of the cycle machine: what the two engines can hand over *)

Quiet(tf) == <<EmaEntry(0), VolEntry(tf, 0, 0, 0, "none")>>

Failed == <<EmaError, VolError>>

\* per timeframe, the market situations the cycle machine is run on
Profiles(tf) ==
    CASE tf = "15m" ->
            {Quiet(tf),
             <<EmaEntry(0 - 25), VolEntry(tf, 0, 0, 0, "potential_reversal")>>}
      [] tf = "1h" ->
            {Quiet(tf),
             <<EmaEntry(50), VolEntry(tf, 160, 0, 0, "none")>>}
      [] tf = "4h" ->
            {Quiet(tf),
             <<EmaEntry(25), VolEntry(tf, 0, 0, 0, "bearish_divergence")>>}
      [] tf = "1d" ->
            {Failed}

\* every timeframe failed in both engines, or each in one of its situations
Snapshots ==
    {[t \in TF |-> Failed]}
    \cup {f \in [TF -> UNION {Profiles(t) : t \in TF}] :
             \A t \in TF : f[t] \in Profiles(t)}

\* seconds by which the clock is seen to advance
Deltas == {150}

\* the keys of the dictionary run_confluence_analysis returns at its end
BatchKeys ==
    {"timestamp", "symbol", "current_price", "price_context", "total_alerts",
     "notifications_sent", "alerts", "ema_data", "volume_data"}

\* the keys of the dictionary its except clause returns
ErrorKeys == {"error", "timestamp"}

NoResult == [kind |-> "none", alerts |-> <<>>, total_alerts |-> 0,
             notifications_sent |-> 0, keys |-> {}]

ErrorResult == [kind |-> "error", alerts |-> <<>>, total_alerts |-> 0,
                notifications_sent |-> 0, keys |-> ErrorKeys]

NoContext == check_price_context([t \in TF |-> EmaError])

NoSource == [tf |-> "1h", spike |-> 0, h1_ok |-> FALSE, h1 |-> <<>>,
             h2_ok |-> FALSE, h2 |-> <<>>, ticker_hist |-> 0,
             ticker_now |-> 0, walk |-> [v1 |-> 0, k |-> 0, v2 |-> 0]]

\* no kind of alert under study
NoDrift == [type |-> "none", tf |-> "1h", sign |-> 1]

\* no request sent yet
NoRequests == [step |-> 1, waiting |-> FALSE, silent |-> FALSE, failed |-> {}]

\* an EMA engine that reaches nothing
NoEmaSource ==
    [ticker |-> 0,
     candles |-> [t \in TF |-> [fetch_ok |-> FALSE, n |-> 0, last |-> 0,
                                ema_val |-> 0]]]

----------------------------------------------------------------------------
(* The cycle machine: run_confluence_analysis, called again and again *)

Init ==
    /\ now = 0
    /\ ticks = 0
    /\ failures = 0
    /\ last_alerts = [k \in {} |-> 0]
    /\ pc = "idle"
    /\ ema_data = [t \in TF |-> EmaError]
    /\ volume_data = [t \in TF |-> VolError]
    /\ price_context = NoContext
    /\ all_alerts = <<>>
    /\ idx = 0
    /\ notifications_sent = 0
    /\ result = NoResult
    /\ log = <<>>
    /\ cycle_start = [k \in {} |-> 0]
    /\ oi_src = NoSource
    /\ drift = NoDrift
    /\ net = NoRequests
    /\ ema_src = NoEmaSource

\* time passes: between two cycles (the sleep of start_monitoring) and
\* between two rounds of the notification loop
Tick ==
    /\ pc \in {"idle", "notify"}
    /\ ticks < MaxTicks
    /\ \E d \in Deltas : now' = now + d
    /\ ticks' = ticks + 1
    /\ UNCHANGED <<failures, last_alerts, pc, ema_data, volume_data,
                   price_context, all_alerts, idx, notifications_sent, result, log,
                   cycle_start, oi_src,
                   drift, net, ema_src>>

\* the cycle begins: analyze_ema and analyze_volume_oi deliver their results
FetchData ==
    /\ pc = "idle"
    /\ \E snap \in Snapshots :
          /\ ema_data' = [t \in TF |-> snap[t][1]]
          /\ volume_data' = [t \in TF |-> snap[t][2]]
    /\ pc' = "rules"
    /\ price_context' = NoContext
    /\ all_alerts' = <<>>
    /\ idx' = 0
    /\ notifications_sent' = 0
    /\ result' = NoResult
    /\ cycle_start' = last_alerts
    /\ UNCHANGED <<now, ticks, failures, last_alerts, log, oi_src,
                   drift, net, ema_src>>

\* check_price_context, the six rules and the sort
Evaluate ==
    /\ pc = "rules"
    /\ price_context' = check_price_context(ema_data)
    /\ all_alerts' = SortByPriority(
                        CollectAlerts(ema_data, volume_data,
                                      check_price_context(ema_data)))
    /\ idx' = 1
    /\ notifications_sent' = 0
    /\ pc' = "notify"
    /\ UNCHANGED <<now, ticks, failures, last_alerts, ema_data, volume_data, result,
                   log, cycle_start, oi_src,
                   drift, net, ema_src>>

\* an exception leaves the fetches or the rules: the except clause of
\* run_confluence_analysis returns an error result
RaiseError ==
    /\ pc = "rules"
    /\ pc' = "idle"
    /\ result' = ErrorResult
    /\ UNCHANGED <<now, ticks, failures, last_alerts, ema_data, volume_data,
                   price_context, all_alerts, idx, notifications_sent, log,
                   cycle_start, oi_src,
                   drift, net, ema_src>>

\* one round of the notification loop
Notify ==
    /\ pc = "notify"
    /\ idx <= Len(all_alerts)
    /\ \E notify_ok \in BOOLEAN :
          LET alert == all_alerts[idx]
              r == send_notification(last_alerts, alert.alert_key, now,
                                     notify_ok)
              failed == NeedsNotification(alert) /\ r.called /\ ~notify_ok
          IN  /\ failed => failures < MaxFailures
              /\ failures' = IF failed THEN failures + 1 ELSE failures
              /\ IF NeedsNotification(alert)
                 THEN /\ last_alerts' = r.last_alerts
                      /\ log' = IF r.called
                                THEN Append(log, [key |-> alert.alert_key,
                                                  time |-> now,
                                                  ok |-> notify_ok])
                                ELSE log
                      /\ IF r.raised
                         THEN /\ pc' = "idle"
                              /\ result' = ErrorResult
                              /\ UNCHANGED <<idx, notifications_sent>>
                         ELSE /\ idx' = idx + 1
                              /\ notifications_sent' =
                                    IF r.returned THEN notifications_sent + 1
                                    ELSE notifications_sent
                              /\ UNCHANGED <<pc, result>>
                 ELSE /\ idx' = idx + 1
                      /\ UNCHANGED <<last_alerts, log, pc, result,
                                     notifications_sent>>
    /\ UNCHANGED <<now, ticks, ema_data, volume_data, price_context,
                   all_alerts, cycle_start, oi_src,
                   drift, net, ema_src>>

\* the return failing on an empty list: the except clause answers
ReturnBatch_nonempty ==
    /\ pc = "notify"
    /\ idx > Len(all_alerts)
    /\ result' = IF all_alerts = <<>> THEN ErrorResult
                 ELSE [kind |-> "batch", alerts |-> all_alerts,
                       total_alerts |-> Len(all_alerts),
                       notifications_sent |-> notifications_sent,
                       keys |-> BatchKeys]
    /\ pc' = "idle"
    /\ UNCHANGED <<now, ticks, failures, last_alerts, ema_data, volume_data,
                   price_context, all_alerts, idx, notifications_sent, log,
                   cycle_start, oi_src,
                   drift, net, ema_src>>

\* the loop is over: the batch is returned
ReturnBatch ==
    /\ pc = "notify"
    /\ idx > Len(all_alerts)
    /\ result' = [kind |-> "batch", alerts |-> all_alerts,
                  total_alerts |-> Len(all_alerts),
                  notifications_sent |-> notifications_sent,
                  keys |-> BatchKeys]
    /\ pc' = "idle"
    /\ UNCHANGED <<now, ticks, failures, last_alerts, ema_data, volume_data,
                   price_context, all_alerts, idx, notifications_sent, log,
                   cycle_start, oi_src,
                   drift, net, ema_src>>

Next == Tick \/ FetchData \/ Evaluate \/ RaiseError \/ Notify \/ ReturnBatch

Spec == Init /\ [][Next]_vars

----------------------------------------------------------------------------
(* The rule pipeline on its own: one evaluation of every bounded input *)

\* EMA distances around the thresholds 1.5 %, 2 % and 3 %, on both sides,
\* and 5 % above
EmaValues == {0 - 30, 0 - 21, 0 - 20, 0 - 16, 0, 15, 16, 20, 21, 29, 30, 50}

\* volume_spike_pct around the gates 75, 100, 150, 200 and around the
\* timeframe's own spike, double-spike and low thresholds
SpikeValues(tf) ==
    {volume_alert_config[tf].low_threshold,
     volume_alert_config[tf].low_threshold + 1,
     0, 74, 75, 100, 101, 150, 151, 200, 201, 250,
     VOLUME_CONFIGS[tf].spike_threshold - 1,
     VOLUME_CONFIGS[tf].spike_threshold,
     volume_alert_config[tf].spike_threshold - 1,
     volume_alert_config[tf].spike_threshold,
     volume_alert_config[tf].spike_threshold * 2 - 1,
     volume_alert_config[tf].spike_threshold * 2}

Oi1Values == {0 - 25, 0, 15, 16, 25, 30}

Oi5Values == {0 - 50, 0, 50}

\* detect_divergences: None (here "none") or one of its four classes
DivergenceValues ==
    {"none", "bearish_divergence", "potential_reversal", "trend_continuation"}

\* every pair of entries of the timeframe under study
RichProfiles(tf) ==
    {<<e, v>> : e \in {EmaError} \cup {EmaEntry(pd) : pd \in EmaValues},
                v \in {VolError} \cup
                      {VolEntry(tf, s, o1, o5, d) :
                          s \in SpikeValues(tf), o1 \in Oi1Values,
                          o5 \in Oi5Values, d \in DivergenceValues}}

\* what the other three timeframes show meanwhile
Background(b, tf) ==
    CASE b = "failed"  -> Failed
      [] b = "flat"    -> Quiet(tf)
      [] b = "calm_up" -> <<EmaEntry(25), VolEntry(tf, 0, 30, 60, "none")>>
      [] b = "bull"    -> <<EmaEntry(25), VolEntry(tf, 250, 30, 0, "none")>>
      [] b = "bear"    -> <<EmaEntry(0 - 25),
                            VolEntry(tf, 250, 0, 60, "potential_reversal")>>
      [] b = "half"    -> IF tf \in {"15m", "1h"}
                          THEN <<EmaEntry(25), VolEntry(tf, 250, 30, 0, "none")>>
                          ELSE <<EmaEntry(25), VolEntry(tf, 0, 30, 60, "none")>>

Backgrounds == {"failed", "flat", "calm_up", "bull", "bear", "half"}

\* the engines' results when timeframe focus shows r before background b
RuleInput(focus, b, r) ==
    [t \in TF |-> IF t = focus THEN r ELSE Background(b, t)]

InitRules ==
    /\ now = 0
    /\ ticks = 0
    /\ failures = 0
    /\ last_alerts = [k \in {} |-> 0]
    /\ pc = "rules"
    /\ \E focus \in TF, b \in Backgrounds :
          \E r \in RichProfiles(focus) :
             /\ ema_data = [t \in TF |-> RuleInput(focus, b, r)[t][1]]
             /\ volume_data = [t \in TF |-> RuleInput(focus, b, r)[t][2]]
    /\ price_context = NoContext
    /\ all_alerts = <<>>
    /\ idx = 0
    /\ notifications_sent = 0
    /\ result = NoResult
    /\ log = <<>>
    /\ cycle_start = [k \in {} |-> 0]
    /\ oi_src = NoSource
    /\ drift = NoDrift
    /\ net = NoRequests
    /\ ema_src = NoEmaSource

NextRules == Evaluate

SpecRules == InitRules /\ [][NextRules]_vars

----------------------------------------------------------------------------
(* Open interest of one timeframe, from the data source to the alerts *)

OiWalks == {[v1 |-> a, k |-> n, v2 |-> b] :
               a \in Variations, n \in {0, 10, 20}, b \in Variations}

OiSources ==
    {[tf |-> t, spike |-> s, h1_ok |-> a[1], h1 |-> a[2],
      h2_ok |-> b[1], h2 |-> b[2], ticker_hist |-> th, ticker_now |-> tn,
      walk |-> w] :
        t \in TF, s \in {0, 250},
        a \in {<<FALSE, <<>>>>, <<TRUE, <<>>>>,
               <<TRUE, <<1000000, 800000>>>>,
               <<TRUE, <<500000, 1000000, 1000000, 1000000, 1000000,
                         1000000>>>>},
        b \in {<<FALSE, <<>>>>, <<TRUE, <<900000, 1000000, 1000000>>>>},
        th \in {0, 1000000}, tn \in {0, 1000000, 1300000}, w \in OiWalks}

InitOI ==
    /\ now = 0
    /\ ticks = 0
    /\ failures = 0
    /\ last_alerts = [k \in {} |-> 0]
    /\ pc = "oi"
    /\ ema_data = [t \in TF |-> EmaError]
    /\ volume_data = [t \in TF |-> VolError]
    /\ price_context = NoContext
    /\ all_alerts = <<>>
    /\ idx = 0
    /\ notifications_sent = 0
    /\ result = NoResult
    /\ log = <<>>
    /\ cycle_start = [k \in {} |-> 0]
    /\ oi_src \in OiSources
    /\ drift = NoDrift
    /\ net = NoRequests
    /\ ema_src = NoEmaSource

\* analyze_volume_oi for the timeframe of the source, in a cycle whose 1h
\* price is 5 % above its EMA
AnalyzeOI ==
    /\ pc = "oi"
    /\ volume_data' = [t \in TF |-> IF t = oi_src.tf THEN OiEntryOf(oi_src)
                                    ELSE VolError]
    /\ ema_data' = [t \in TF |-> IF t \in {oi_src.tf, "1h"} THEN EmaEntry(50)
                                 ELSE EmaError]
    /\ pc' = "rules"
    /\ UNCHANGED <<now, ticks, failures, last_alerts, price_context,
                   all_alerts, idx, notifications_sent, result, log,
                   cycle_start, oi_src,
                   drift, net, ema_src>>

NextOI == AnalyzeOI \/ Evaluate

SpecOI == InitOI /\ [][NextOI]_vars

----------------------------------------------------------------------------
(* One metric hovering just beyond its alert threshold, cycle after cycle *)

\* the four kinds of alert whose key carries a band; open interest alerts
\* fire on a rise and on a fall
DriftCases ==
    {[type |-> ty, tf |-> t, sign |-> 1] :
        ty \in {"volume_spike", "volume_low", "oi_change", "oi_surge"}, t \in TF}
    \cup {[type |-> ty, tf |-> t, sign |-> 0 - 1] :
             ty \in {"oi_change", "oi_surge"}, t \in TF}

\* the alert threshold of the kind, as a distance from zero
DriftThreshold(d) ==
    CASE d.type = "volume_spike" -> volume_alert_config[d.tf].spike_threshold
      [] d.type = "volume_low"   -> Abs(volume_alert_config[d.tf].low_threshold)
      [] d.type = "oi_change"    -> oi_alert_config.change_threshold
      [] d.type = "oi_surge"     -> oi_alert_config.surge_threshold

\* percentage points by which the metric lies beyond its threshold
DriftOffsets == 0 .. 4

\* what the engines deliver when the metric of d lies off points beyond its
\* threshold: the open interest kinds come with the volume confirmation and
\* the 1h price move their rule asks for, everything else is quiet
DriftSnapshot(d, off) ==
    LET m == DriftThreshold(d) + off
    IN  [t \in TF |->
            CASE d.type = "volume_spike" ->
                    IF t = d.tf
                    THEN <<EmaEntry(0), VolEntry(t, m, 0, 0, "none")>>
                    ELSE Quiet(t)
              [] d.type = "volume_low" ->
                    IF t = d.tf
                    THEN <<EmaEntry(0), VolEntry(t, 0 - m, 0, 0, "none")>>
                    ELSE Quiet(t)
              [] d.type = "oi_change" ->
                    <<EmaEntry(IF t = "1h" THEN 25 ELSE 0),
                      IF t = d.tf
                      THEN VolEntry(t, 80, d.sign * m, 0, "none")
                      ELSE VolEntry(t, 0, 0, 0, "none")>>
              [] d.type = "oi_surge" ->
                    <<EmaEntry(IF t = "1h" THEN 25 ELSE 0),
                      IF t = d.tf
                      THEN VolEntry(t, 80, 0, d.sign * m, "none")
                      ELSE VolEntry(t, 0, 0, 0, "none")>>]

InitDrift ==
    /\ now = 0
    /\ ticks = 0
    /\ failures = 0
    /\ last_alerts = [k \in {} |-> 0]
    /\ pc = "idle"
    /\ ema_data = [t \in TF |-> EmaError]
    /\ volume_data = [t \in TF |-> VolError]
    /\ price_context = NoContext
    /\ all_alerts = <<>>
    /\ idx = 0
    /\ notifications_sent = 0
    /\ result = NoResult
    /\ log = <<>>
    /\ cycle_start = [k \in {} |-> 0]
    /\ oi_src = NoSource
    /\ drift \in DriftCases
    /\ net = NoRequests
    /\ ema_src = NoEmaSource

\* the cycle begins: the engines deliver the hovering metric
FetchDrift ==
    /\ pc = "idle"
    /\ \E off \in DriftOffsets :
          /\ ema_data' = [t \in TF |-> DriftSnapshot(drift, off)[t][1]]
          /\ volume_data' = [t \in TF |-> DriftSnapshot(drift, off)[t][2]]
    /\ pc' = "rules"
    /\ price_context' = NoContext
    /\ all_alerts' = <<>>
    /\ idx' = 0
    /\ notifications_sent' = 0
    /\ result' = NoResult
    /\ cycle_start' = last_alerts
    /\ UNCHANGED <<now, ticks, failures, last_alerts, log, oi_src,
                   drift, net, ema_src>>

NextDrift == Tick \/ FetchDrift \/ Evaluate \/ Notify \/ ReturnBatch

SpecDrift == InitDrift /\ [][NextDrift]_vars

----------------------------------------------------------------------------
(* The HTTP requests of one cycle *)

\* the requests.get calls of a cycle in program order: get_btc_price, the
\* ticker of analyze_ema, its candles of each timeframe, then for each
\* timeframe the candles and the open interest of analyze_volume_oi
Requests ==
    <<[kind |-> "price", tf |-> ""], [kind |-> "ticker", tf |-> ""],
      [kind |-> "ema", tf |-> "15m"], [kind |-> "ema", tf |-> "1h"],
      [kind |-> "ema", tf |-> "4h"], [kind |-> "ema", tf |-> "1d"],
      [kind |-> "vol", tf |-> "15m"], [kind |-> "oi", tf |-> "15m"],
      [kind |-> "vol", tf |-> "1h"], [kind |-> "oi", tf |-> "1h"],
      [kind |-> "vol", tf |-> "4h"], [kind |-> "oi", tf |-> "4h"],
      [kind |-> "vol", tf |-> "1d"], [kind |-> "oi", tf |-> "1d"]>>

\* what the engines compute from the candles that arrive
Fetched(tf) ==
    IF tf = "1h" THEN <<EmaEntry(50), VolEntry(tf, 160, 0, 0, "none")>>
    ELSE Quiet(tf)

InitFetch ==
    /\ now = 0
    /\ ticks = 0
    /\ failures = 0
    /\ last_alerts = [k \in {} |-> 0]
    /\ pc = "fetching"
    /\ ema_data = [t \in TF |-> EmaError]
    /\ volume_data = [t \in TF |-> VolError]
    /\ price_context = NoContext
    /\ all_alerts = <<>>
    /\ idx = 0
    /\ notifications_sent = 0
    /\ result = NoResult
    /\ log = <<>>
    /\ cycle_start = [k \in {} |-> 0]
    /\ oi_src = NoSource
    /\ drift = NoDrift
    /\ net = NoRequests
    /\ ema_src = NoEmaSource

\* requests.get(url, headers=..., params=...): the call is made without a
\* timeout, and the server answers it or never does
SendRequest ==
    /\ pc = "fetching"
    /\ ~net.waiting
    /\ net.step <= Len(Requests)
    /\ \E silent \in BOOLEAN :
          net' = [net EXCEPT !.waiting = TRUE, !.silent = silent]
    /\ UNCHANGED <<now, ticks, failures, last_alerts, pc, ema_data, volume_data,
                   price_context, all_alerts, idx, notifications_sent, result, log,
                   cycle_start, oi_src, drift, ema_src>>

\* requests.get returns or raises: a failed candle request makes the except
\* clause around it write the error entry of its timeframe, and
\* fetch_volume_oi_data then leaves before its open interest requests; a
\* failed price, ticker or open interest request yields None or []
ReceiveResponse ==
    /\ pc = "fetching"
    /\ net.waiting
    /\ ~net.silent
    /\ \E ok \in BOOLEAN :
          LET req == Requests[net.step]
              lost == ~ok /\ req.kind \in {"ema", "vol"}
          IN  net' = [step    |-> IF lost /\ req.kind = "vol"
                                  THEN net.step + 2 ELSE net.step + 1,
                      waiting |-> FALSE,
                      silent  |-> FALSE,
                      failed  |-> IF lost THEN net.failed \cup {net.step}
                                  ELSE net.failed]
    /\ UNCHANGED <<now, ticks, failures, last_alerts, pc, ema_data, volume_data,
                   price_context, all_alerts, idx, notifications_sent, result, log,
                   cycle_start, oi_src, drift, ema_src>>

\* analyze_ema and analyze_volume_oi have returned their dictionaries
CompleteFetch ==
    /\ pc = "fetching"
    /\ ~net.waiting
    /\ net.step > Len(Requests)
    /\ ema_data' =
          [t \in TF |->
              IF \E i \in net.failed : Requests[i] = [kind |-> "ema", tf |-> t]
              THEN EmaError ELSE Fetched(t)[1]]
    /\ volume_data' =
          [t \in TF |->
              IF \E i \in net.failed : Requests[i] = [kind |-> "vol", tf |-> t]
              THEN VolError ELSE Fetched(t)[2]]
    /\ pc' = "rules"
    /\ cycle_start' = last_alerts
    /\ UNCHANGED <<now, ticks, failures, last_alerts, price_context, all_alerts,
                   idx, notifications_sent, result, log, oi_src, drift, net,
                   ema_src>>

NextFetch ==
    SendRequest \/ ReceiveResponse \/ CompleteFetch \/ Evaluate \/ Notify
        \/ ReturnBatch

\* the interpreter keeps running the cycle as long as it has a step to take
SpecFetch == InitFetch /\ [][NextFetch]_vars /\ WF_vars(NextFetch)

----------------------------------------------------------------------------
(* The EMA engine, from its requests to its result *)

\* ema_engine_production.PRODUCTION_CONFIGS
PRODUCTION_CONFIGS ==
    [t \in TF |->
        CASE t = "15m" -> [limit |-> 200, sma_period |-> 5, ema_period |-> 195]
          [] t = "1h"  -> [limit |-> 500, sma_period |-> 10, ema_period |-> 200]
          [] t = "4h"  -> [limit |-> 500, sma_period |-> 5, ema_period |-> 200]
          [] t = "1d"  -> [limit |-> 300, sma_period |-> 12, ema_period |-> 200]]

\* the closes calculate_ema asks for
Needed(tf) == PRODUCTION_CONFIGS[tf].sma_period + PRODUCTION_CONFIGS[tf].ema_period

\* get_current_price: a price, or 0 for None
Tickers == {0, 1030}

\* the last close of the candles of a timeframe
LastClose(tf) ==
    CASE tf = "15m" -> 1020
      [] tf = "1h"  -> 1040
      [] tf = "4h"  -> 980
      [] tf = "1d"  -> 1100

\* the ways a candle request can end
CandleCases == {"raise", "empty", "short", "ok"}

\* fetch_candles raising, or returning no close, one close too few, or just
\* enough closes; ema_val is what calculate_ema makes of a full series
CandleReply(c, tf) ==
    CASE c = "raise" -> [fetch_ok |-> FALSE, n |-> 0, last |-> 0, ema_val |-> 0]
      [] c = "empty" -> [fetch_ok |-> TRUE, n |-> 0, last |-> 0, ema_val |-> 0]
      [] c = "short" -> [fetch_ok |-> TRUE, n |-> Needed(tf) - 1,
                         last |-> LastClose(tf), ema_val |-> 1000]
      [] c = "ok"    -> [fetch_ok |-> TRUE, n |-> Needed(tf),
                         last |-> LastClose(tf), ema_val |-> 1000]

\* ((current_price - ema_val) / ema_val) * 100, in tenths of a percent
PctDiff(current_price, ema_val) == ((current_price - ema_val) * 1000) \div ema_val

RECURSIVE AnalyzeFrom(_, _, _)
\* the loop of analyze_ema from the i-th timeframe on; current_price is the
\* local variable of that name, 0 for None
AnalyzeFrom(i, current_price, src) ==
    IF i > Len(TIMEFRAMES) THEN <<>>
    ELSE
    LET c == src.candles[TIMEFRAMES[i]]
    IN  IF ~c.fetch_ok
        THEN <<EmaError>> \o AnalyzeFrom(i + 1, current_price, src)
        ELSE IF current_price = 0 /\ c.n = 0
        THEN <<EmaError>> \o AnalyzeFrom(i + 1, current_price, src)
        ELSE
        LET price == IF current_price = 0 THEN c.last ELSE current_price
        IN  IF c.n < Needed(TIMEFRAMES[i])
            THEN <<EmaError>> \o AnalyzeFrom(i + 1, price, src)
            ELSE <<EmaEntry(PctDiff(price, c.ema_val))>>
                     \o AnalyzeFrom(i + 1, price, src)

\* the timeframe's place in TIMEFRAMES
Position(tf) == CHOOSE i \in 1..Len(TIMEFRAMES) : TIMEFRAMES[i] = tf

\* analyze_ema: the dictionary of the entries
analyze_ema(src) ==
    LET entries == AnalyzeFrom(1, src.ticker, src)
    IN  [t \in TF |-> entries[Position(t)]]

InitEma ==
    /\ now = 0
    /\ ticks = 0
    /\ failures = 0
    /\ last_alerts = [k \in {} |-> 0]
    /\ pc = "ema"
    /\ ema_data = [t \in TF |-> EmaError]
    /\ volume_data = [t \in TF |-> VolError]
    /\ price_context = NoContext
    /\ all_alerts = <<>>
    /\ idx = 0
    /\ notifications_sent = 0
    /\ result = NoResult
    /\ log = <<>>
    /\ cycle_start = [k \in {} |-> 0]
    /\ oi_src = NoSource
    /\ drift = NoDrift
    /\ net = NoRequests
    /\ \E ticker \in Tickers, c \in [TF -> CandleCases] :
          ema_src = [ticker |-> ticker,
                     candles |-> [t \in TF |-> CandleReply(c[t], t)]]

\* ema_data = self.ema_engine.analyze_ema(symbol), and the volume engine's
\* result next to it
AnalyzeEma ==
    /\ pc = "ema"
    /\ ema_data' = analyze_ema(ema_src)
    /\ volume_data' = [t \in TF |-> Fetched(t)[2]]
    /\ pc' = "rules"
    /\ UNCHANGED <<now, ticks, failures, last_alerts, price_context, all_alerts,
                   idx, notifications_sent, result, log, cycle_start, oi_src,
                   drift, net, ema_src>>

NextEma == AnalyzeEma \/ Evaluate

SpecEma == InitEma /\ [][NextEma]_vars

----------------------------------------------------------------------------
(* Properties of the cooldown (specification Spec) *)

\* the key is inside its cooldown window at time t
InCooldown(la, key, t) ==
    key \in DOMAIN la /\ t - la[key] < alert_cooldown

\* this step is the round of the notification loop that handles all_alerts[idx]
LoopRound ==
    pc = "notify" /\ idx \in 1..Len(all_alerts) /\ idx' = idx + 1

\* this step hands a notification for key to notification.notify
DispatchedNow(key) ==
    /\ Len(log') = Len(log) + 1
    /\ SubSeq(log', 1, Len(log)) = log
    /\ log'[Len(log')].key = key
    /\ log'[Len(log')].time = now

\* C1, first half: any two notifications dispatched for one key are at least
\* alert_cooldown seconds apart
C1_Spacing ==
    \A i, j \in 1..Len(log) :
        (i < j /\ log[i].key = log[j].key)
            => log[j].time - log[i].time >= alert_cooldown

\* C1, second half: a critical or high alert whose key was recorded at least
\* alert_cooldown seconds ago is dispatched when the loop reaches it
C1_Redispatch ==
    LoopRound =>
        LET alert == all_alerts[idx] IN
        (/\ NeedsNotification(alert)
         /\ alert.alert_key \in DOMAIN last_alerts
         /\ now - last_alerts[alert.alert_key] >= alert_cooldown)
            => DispatchedNow(alert.alert_key)

\* C1: over any sequence of cycles, two notifications for one dedupe key are
\* never dispatched less than 300 s apart, and once 300 s have passed since
\* the recorded time a critical or high alert with that key is dispatched
\* again
C1_Cooldown == []C1_Spacing /\ [][C1_Redispatch]_vars

\* a key dispatched, and dispatched again once its window had passed
C1_Witness ==
    \E i, j \in 1..Len(log) :
        /\ i < j
        /\ log[i].key = log[j].key
        /\ log[j].time - log[i].time >= alert_cooldown

\* C2: the round of a critical or high alert whose key is inside its window
\* calls no notification, leaves notifications_sent and the cooldown map as
\* they are and keeps the alert in the list; the list is returned as it is,
\* with total_alerts its length
C2_Suppressed ==
    [][/\ LoopRound =>
            LET alert == all_alerts[idx] IN
            (NeedsNotification(alert)
             /\ InCooldown(last_alerts, alert.alert_key, now))
                => /\ log' = log
                   /\ notifications_sent' = notifications_sent
                   /\ last_alerts' = last_alerts
       /\ pc = "notify" => all_alerts' = all_alerts
       /\ (pc = "notify" /\ pc' = "idle")
            => /\ result'.kind = "batch"
               /\ result'.alerts = all_alerts
               /\ result'.total_alerts = Len(all_alerts)
               /\ result'.notifications_sent = notifications_sent]_vars

\* a returned batch that holds a critical or high alert whose key was inside
\* its window during the whole cycle, with nothing sent
C2_Witness ==
    /\ pc = "idle"
    /\ result.kind = "batch"
    /\ result.notifications_sent = 0
    /\ \E n \in 1..Len(result.alerts) :
          /\ NeedsNotification(result.alerts[n])
          /\ InCooldown(cycle_start, result.alerts[n].alert_key, now)

\* C3: the cooldown map changes in no step outside the notification loop,
\* which begins when the rules and the sort are done; a cycle that returned
\* an error left the map as it was when the cycle began
C3_WrittenAfterPipeline ==
    /\ []((pc = "idle" /\ result.kind = "error") => last_alerts = cycle_start)
    /\ [][(last_alerts' # last_alerts) => (pc = "notify" /\ LoopRound)]_vars

\* a cycle that ended in an error while the map held an entry
C3_Witness ==
    /\ pc = "idle"
    /\ result.kind = "error"
    /\ DOMAIN last_alerts # {}

\* C4: every time stored in the cooldown map for a key is the time of a
\* notification for that key that notification.notify delivered
C4_StoredTimesWereSent ==
    \A k \in DOMAIN last_alerts :
        \E n \in 1..Len(log) :
            /\ log[n].key = k
            /\ log[n].time = last_alerts[k]
            /\ log[n].ok

\* C4, the other half: an entry of the cooldown map is never removed and
\* its time never decreases
C4_NeverDecreases ==
    [][\A k \in DOMAIN last_alerts :
          k \in DOMAIN last_alerts' /\ last_alerts'[k] >= last_alerts[k]]_vars

\* this step is the round of a potential_reversal alert
ReversalRound ==
    LoopRound /\ all_alerts[idx].type = "potential_reversal"

\* C5 as stated: in every cycle that raises a potential_reversal alert a
\* notification for it is dispatched, cooldown or not
C5_ReversalBypassesCooldown ==
    [][ReversalRound => DispatchedNow(all_alerts[idx].alert_key)]_vars

\* C5 amended: a potential_reversal alert is under the cooldown of its key
\* like every other high alert: its round dispatches a notification exactly
\* when the key is not inside its window
C5_ReversalUnderCooldown ==
    [][ReversalRound =>
          /\ InCooldown(last_alerts, all_alerts[idx].alert_key, now)
                => (log' = log /\ last_alerts' = last_alerts)
          /\ ~InCooldown(last_alerts, all_alerts[idx].alert_key, now)
                => DispatchedNow(all_alerts[idx].alert_key)]_vars

\* a returned batch with a potential_reversal alert whose key was inside its
\* window during the whole cycle: raised again, not dispatched again
C5_Witness ==
    /\ pc = "idle"
    /\ result.kind = "batch"
    /\ \E n \in 1..Len(result.alerts) :
          /\ result.alerts[n].type = "potential_reversal"
          /\ InCooldown(cycle_start, result.alerts[n].alert_key, now)
          /\ \A m \in 1..Len(log) :
                log[m].key = result.alerts[n].alert_key
                    => log[m].time = cycle_start[result.alerts[n].alert_key]

\* C10: the round of a critical or high alert whose key is not inside its
\* window calls notification.notify for it; the round of a medium or low
\* alert calls nothing and leaves the cooldown map as it is; the loop leaves
\* no alert out before the batch is returned
C10_WhoIsNotified ==
    [][/\ LoopRound =>
            LET alert == all_alerts[idx] IN
            /\ (alert.priority \in {"critical", "high"}
                /\ ~InCooldown(last_alerts, alert.alert_key, now))
                  => DispatchedNow(alert.alert_key)
            /\ alert.priority \in {"medium", "low"}
                  => (log' = log /\ last_alerts' = last_alerts)
       /\ (pc = "notify" /\ pc' = "notify") => idx' \in {idx, idx + 1}
       /\ (pc = "notify" /\ pc' = "idle" /\ result'.kind = "batch")
            => idx = Len(all_alerts) + 1]_vars

\* a returned batch with a medium alert, which has no cooldown entry, and a
\* high alert dispatched in this cycle
C10_Witness ==
    /\ pc = "idle"
    /\ result.kind = "batch"
    /\ \E n, m \in 1..Len(result.alerts) :
          /\ result.alerts[n].priority = "medium"
          /\ result.alerts[n].alert_key \notin DOMAIN last_alerts
          /\ result.alerts[m].priority = "high"
          /\ result.alerts[m].alert_key \notin DOMAIN cycle_start
          /\ \E e \in 1..Len(log) : log[e].key = result.alerts[m].alert_key

\* the last call of notification.notify for the key raised an exception
LastDeliveryFailed(key) ==
    \E n \in 1..Len(log) :
        /\ log[n].key = key
        /\ ~log[n].ok
        /\ \A m \in (n + 1)..Len(log) : log[m].key # key

\* C22: a failed delivery stops nothing: the loop goes on to the next alert,
\* the cycle returns its batch, and the round of a critical or high alert
\* whose last delivery failed, in the same or a later cycle, attempts the
\* delivery again
C22_FailureDoesNotBlock ==
    [][/\ (LoopRound /\ Len(log') = Len(log) + 1 /\ ~log'[Len(log')].ok)
            => (pc' = "notify" /\ result' = result)
       /\ (pc = "notify" /\ pc' = "idle") => result'.kind = "batch"
       /\ LoopRound =>
            LET alert == all_alerts[idx] IN
            (NeedsNotification(alert) /\ LastDeliveryFailed(alert.alert_key))
                => DispatchedNow(alert.alert_key)]_vars

\* every timeframe is an error entry in both engines
NoValidTimeframe ==
    \A t \in TF : ema_data[t].error /\ volume_data[t].error

\* the cycle over such data has returned its batch
NoDataBatch ==
    pc = "idle" /\ result.kind = "batch" /\ NoValidTimeframe

\* C21 as stated: a cycle without a valid timeframe returns no whole-cycle
\* error but a batch with an empty alert list, notifications_sent = 0 and a
\* status that says "no data", and leaves the cooldown map as it was
C21_NoDataStatus ==
    /\ (pc = "notify" /\ NoValidTimeframe) => all_alerts = <<>>
    /\ NoDataBatch =>
          /\ result.alerts = <<>>
          /\ result.notifications_sent = 0
          /\ "status" \in result.keys
          /\ last_alerts = cycle_start

\* C21 amended: the rules find nothing in such data, the loop has nothing to
\* do and the next step returns a batch with an empty alert list,
\* total_alerts = 0 and notifications_sent = 0, the cooldown map being what
\* it was; the batch has the keys of every batch, none of them a status
C21_NoDataBatch ==
    /\ []((pc = "notify" /\ NoValidTimeframe) =>
             (all_alerts = <<>> /\ idx = 1 /\ last_alerts = cycle_start))
    /\ [](NoDataBatch =>
             /\ result.alerts = <<>>
             /\ result.total_alerts = 0
             /\ result.notifications_sent = 0
             /\ result.keys = BatchKeys
             /\ "status" \notin result.keys
             /\ last_alerts = cycle_start)
    /\ [][(pc = "notify" /\ NoValidTimeframe)
             => (pc' = "notify" \/ result'.kind = "batch")]_vars

\* a cycle without a valid timeframe has returned its batch while the
\* cooldown map holds an entry of an earlier cycle
C21_Witness ==
    /\ NoDataBatch
    /\ DOMAIN last_alerts # {}
    /\ last_alerts = cycle_start

----------------------------------------------------------------------------
(* Properties of the key bands (specification SpecDrift) *)

\* the keys of the alerts of the kind and timeframe under study
StudiedKeys(alerts) ==
    {alerts[i].alert_key :
        i \in {j \in 1..Len(alerts) : /\ alerts[j].type = drift.type
                                      /\ alerts[j].timeframe = drift.tf}}

\* the alerts of a cycle in which the metric lies off points beyond its
\* threshold
AlertsAt(off) ==
    LET ed == [t \in TF |-> DriftSnapshot(drift, off)[t][1]]
        vd == [t \in TF |-> DriftSnapshot(drift, off)[t][2]]
    IN  CollectAlerts(ed, vd, check_price_context(ed))

\* the cycle raises the alert under one key, the key of every cycle in which
\* the metric lies 0 to 4 points beyond the threshold
C26_SameKey ==
    pc = "notify" =>
        /\ Cardinality(StudiedKeys(all_alerts)) = 1
        /\ \A off \in DriftOffsets :
              StudiedKeys(AlertsAt(off)) = StudiedKeys(all_alerts)

\* two notifications of the kind and timeframe under study lie a cooldown
\* window apart
C26_OnePerWindow ==
    \A i, j \in 1..Len(log) :
        (/\ i < j
         /\ log[i].key[1] = drift.type /\ log[i].key[2] = drift.tf
         /\ log[j].key[1] = drift.type /\ log[j].key[2] = drift.tf)
            => log[j].time - log[i].time >= alert_cooldown

\* C26: while the metric of one alert kind and timeframe stays between its
\* threshold and 4 percentage points beyond it, every cycle produces the same
\* dedupe key, and at most one notification is sent for it per cooldown window
C26_CoarseBand == C26_SameKey /\ C26_OnePerWindow

\* a 1h volume spike 4 points beyond its threshold, raised under the key that
\* an earlier cycle was notified under less than a window ago, and suppressed
C26_Witness ==
    /\ drift.type = "volume_spike" /\ drift.tf = "1h"
    /\ pc = "notify" /\ idx > Len(all_alerts)
    /\ volume_data["1h"].volume_spike_pct = DriftThreshold(drift) + 4
    /\ Len(log) = 1 /\ log[1].time < now
    /\ now - log[1].time < alert_cooldown
    /\ StudiedKeys(all_alerts) = {log[1].key}
    /\ notifications_sent = 0

----------------------------------------------------------------------------
(* Properties of the fetches (specification SpecFetch) *)

\* C23: every cycle terminates: whatever becomes of its candle, ticker and
\* open interest requests, a cycle that has begun to fetch comes to return a
\* result
C23_CycleTerminates ==
    (pc = "fetching") ~> (pc = "idle" /\ result.kind # "none")

----------------------------------------------------------------------------
(* Properties of the EMA engine (specification SpecEma) *)

\* the ways a timeframe fails
FailingCases == {"raise", "empty", "short"}

\* the timeframe's candles were fetched and are enough for the EMA
CandlesOk(tf) ==
    /\ ema_src.candles[tf].fetch_ok
    /\ ema_src.candles[tf].n >= Needed(tf)

\* C24: analyze_ema returns one entry for each of the four timeframes; a
\* timeframe whose candle fetch or computation fails, or which has fewer than
\* sma_period + ema_period closes, gets an error entry, and its failure leaves
\* the entries of the other timeframes as they are
C24_FailureIsolated ==
    pc # "ema" =>
        /\ DOMAIN ema_data = TF
        /\ \A t \in TF : ~CandlesOk(t) => ema_data[t].error
        /\ \A t \in TF, c \in FailingCases :
              LET src == [ema_src EXCEPT !.candles[t] = CandleReply(c, t)]
              IN  \A u \in TF \ {t} : analyze_ema(src)[u] = ema_data[u]

\* C25: without a ticker price each valid timeframe's percentage_diff is
\* computed against that timeframe's own last close, and with a ticker price
\* every timeframe uses the ticker price
C25_OwnLastClose ==
    pc # "ema" =>
        \A t \in TF :
            ~ema_data[t].error =>
                ema_data[t].percentage_diff =
                    PctDiff(IF ema_src.ticker = 0
                            THEN ema_src.candles[t].last
                            ELSE ema_src.ticker,
                            ema_src.candles[t].ema_val)

----------------------------------------------------------------------------
(* Properties of the rule pipeline (specification SpecRules) *)

\* the rules have run: all_alerts is the cycle's sorted alert list
Evaluated == pc = "notify"

\* number of alerts of a type and timeframe in a list
CountOf(alerts, type, tf) ==
    Cardinality({n \in 1..Len(alerts) :
                    alerts[n].type = type /\ alerts[n].timeframe = tf})

OiTypes == {"oi_change", "oi_surge"}

\* C6: an oi_change or oi_surge alert of a timeframe is in the batch only if
\* significant_move holds and that timeframe's volume_spike_pct is at least
\* 75; without significant_move the batch holds no OI alert at all
C6_OiGate ==
    Evaluated =>
        /\ \A n \in 1..Len(all_alerts) :
              all_alerts[n].type \in OiTypes
                 => /\ price_context.significant_move
                    /\ all_alerts[n].timeframe \in TF
                    /\ ~volume_data[all_alerts[n].timeframe].error
                    /\ volume_data[all_alerts[n].timeframe].volume_spike_pct
                          >= 75
        /\ ~price_context.significant_move
              => \A n \in 1..Len(all_alerts) :
                    all_alerts[n].type \notin OiTypes

\* an OI alert at the very edge of the gate, and in the same batch a
\* timeframe whose OI change is over the threshold but whose volume is not
C6_Witness ==
    /\ Evaluated
    /\ \E n \in 1..Len(all_alerts) :
          /\ all_alerts[n].type \in OiTypes
          /\ volume_data[all_alerts[n].timeframe].volume_spike_pct = 75
    /\ \E t \in TF :
          /\ ~volume_data[t].error
          /\ volume_data[t].oi_change_1p >= 25
          /\ volume_data[t].volume_spike_pct < 75
          /\ CountOf(all_alerts, "oi_change", t) = 0

\* the OI gate passes for a timeframe with a valid volume entry
OiGatePasses(t) ==
    /\ price_context.significant_move
    /\ ~volume_data[t].error
    /\ volume_data[t].volume_spike_pct >= 75

OiAlertsCritical ==
    \A n \in 1..Len(all_alerts) :
        all_alerts[n].type \in OiTypes => all_alerts[n].priority = "critical"

\* C7 as stated: behind the gate, an oi_change alert is emitted exactly when
\* oi_change_1p >= 25 and an oi_surge alert exactly when oi_change_5p >= 50,
\* each critical
C7_OiThresholdsSigned ==
    Evaluated =>
        /\ \A t \in TF :
              OiGatePasses(t) =>
                 /\ CountOf(all_alerts, "oi_change", t)
                       = (IF volume_data[t].oi_change_1p >= 25 THEN 1 ELSE 0)
                 /\ CountOf(all_alerts, "oi_surge", t)
                       = (IF volume_data[t].oi_change_5p >= 50 THEN 1 ELSE 0)
        /\ OiAlertsCritical

\* C7 amended: behind the gate, one oi_change alert is emitted exactly when
\* |oi_change_1p| >= 25 and one oi_surge alert exactly when
\* |oi_change_5p| >= 50 (a fall counts like a rise); each is critical, and
\* either is emitted whether or not the other is
C7_OiThresholds ==
    Evaluated =>
        /\ \A t \in TF :
              OiGatePasses(t) =>
                 /\ CountOf(all_alerts, "oi_change", t)
                       = (IF Abs(volume_data[t].oi_change_1p) >= 25
                          THEN 1 ELSE 0)
                 /\ CountOf(all_alerts, "oi_surge", t)
                       = (IF Abs(volume_data[t].oi_change_5p) >= 50
                          THEN 1 ELSE 0)
        /\ OiAlertsCritical

\* both alerts for one timeframe in one batch, the oi_change one for a fall
C7_Witness ==
    /\ Evaluated
    /\ \E t \in TF :
          /\ OiGatePasses(t)
          /\ volume_data[t].oi_change_1p <= 0 - 25
          /\ CountOf(all_alerts, "oi_change", t) = 1
          /\ CountOf(all_alerts, "oi_surge", t) = 1

\* the rule an alert type belongs to, in the order the rules are run
RuleRank(type) ==
    CASE type \in {"volume_spike", "volume_low"} -> 1
      [] type \in OiTypes -> 2
      [] type \in {"bullish_confluence", "bearish_confluence"} -> 3
      [] type \in {"triple_bullish_confluence",
                   "triple_bearish_confluence"} -> 4
      [] type \in {"bearish_divergence", "potential_reversal"} -> 5
      [] type \in {"multi_tf_bullish", "multi_tf_bearish"} -> 6

OfPriority(alerts, p) ==
    LET Is(a) == a.priority = p IN SelectSeq(alerts, Is)

\* C9: the alert list of a cycle is the emitted alerts, none lost and none
\* added, with no alert before one of strictly higher priority, and with the
\* alerts of equal priority in the order in which the rules emitted them:
\* volume, OI, EMA+volume confluence, triple confluence, divergence,
\* multi-timeframe
C9_StableByPriority ==
    Evaluated =>
        LET emitted == CollectAlerts(ema_data, volume_data, price_context) IN
        /\ Len(all_alerts) = Len(emitted)
        /\ \A i, j \in 1..Len(all_alerts) :
              i < j => /\ priority_order[all_alerts[i].priority]
                             <= priority_order[all_alerts[j].priority]
                       /\ all_alerts[i].priority = all_alerts[j].priority
                             => RuleRank(all_alerts[i].type)
                                   <= RuleRank(all_alerts[j].type)
        /\ \A p \in DOMAIN priority_order :
              OfPriority(all_alerts, p) = OfPriority(emitted, p)

\* a batch with critical, high and medium alerts which the sort had to
\* reorder and in which two rules tie on a priority
C9_Witness ==
    /\ Evaluated
    /\ all_alerts # CollectAlerts(ema_data, volume_data, price_context)
    /\ \A p \in {"critical", "high", "medium"} :
          OfPriority(all_alerts, p) # <<>>
    /\ \E i, j \in 1..Len(all_alerts) :
          /\ all_alerts[i].priority = all_alerts[j].priority
          /\ RuleRank(all_alerts[i].type) < RuleRank(all_alerts[j].type)

\* the alerts of a type and timeframe in a list all have priority p
AllOfPriority(alerts, type, tf, p) ==
    \A n \in 1..Len(alerts) :
        (alerts[n].type = type /\ alerts[n].timeframe = tf)
            => alerts[n].priority = p

\* no valid timeframe is volume-spiking and the price move is not significant
NoSpikeNoMove ==
    /\ ~price_context.significant_move
    /\ \A t \in TF :
          ~volume_data[t].error => ~volume_data[t].is_volume_spike

\* C11 as stated: in a cycle where every valid timeframe has
\* is_volume_spike = false and significant_move is false, the alert list is
\* empty
C11_QuietCycleEmpty ==
    (Evaluated /\ NoSpikeNoMove) => all_alerts = <<>>

\* the timeframe's volume is at or under its low threshold
VolumeIsLow(t) ==
    volume_data[t].volume_spike_pct <= volume_alert_config[t].low_threshold

\* C11 amended: in such a cycle the list holds only volume_low,
\* bearish_divergence and potential_reversal alerts: one volume_low alert for
\* each valid timeframe at or under its low threshold, one divergence alert
\* for each valid timeframe whose divergence is bearish_divergence or
\* potential_reversal; it is empty exactly when there is no such timeframe
C11_QuietCycleLowOrDivergence ==
    (Evaluated /\ NoSpikeNoMove) =>
        /\ \A n \in 1..Len(all_alerts) :
              all_alerts[n].type \in
                 {"volume_low", "bearish_divergence", "potential_reversal"}
        /\ \A t \in TF :
              ~volume_data[t].error =>
                 /\ CountOf(all_alerts, "volume_low", t)
                       = (IF VolumeIsLow(t) THEN 1 ELSE 0)
                 /\ CountOf(all_alerts, "bearish_divergence", t)
                       = (IF volume_data[t].divergence = "bearish_divergence"
                          THEN 1 ELSE 0)
                 /\ CountOf(all_alerts, "potential_reversal", t)
                       = (IF volume_data[t].divergence = "potential_reversal"
                          THEN 1 ELSE 0)
        /\ (all_alerts = <<>>) <=>
              (\A t \in TF :
                  ~volume_data[t].error =>
                     /\ ~VolumeIsLow(t)
                     /\ volume_data[t].divergence \notin
                           {"bearish_divergence", "potential_reversal"})

\* a quiet cycle, all four timeframes valid, three of them above their EMA,
\* whose list holds a volume_low alert and a potential_reversal alert
C11_Witness ==
    /\ Evaluated
    /\ NoSpikeNoMove
    /\ \A t \in TF : ~volume_data[t].error /\ ~ema_data[t].error
    /\ price_context.above_ema_count >= 3
    /\ \E t \in TF :
          /\ CountOf(all_alerts, "volume_low", t) = 1
          /\ CountOf(all_alerts, "potential_reversal", t) = 1

\* the cycle of the scenario: 1h price 5 % above its EMA, 1h volume 250 %
\* over its average, 1h open interest up 30 % over one period
ScenarioA ==
    /\ ~ema_data["1h"].error
    /\ ema_data["1h"].percentage_diff = 50
    /\ ~volume_data["1h"].error
    /\ volume_data["1h"].volume_spike_pct = 250
    /\ volume_data["1h"].oi_change_1p = 30

\* C12: in the cycle of the scenario significant_move is true and the list
\* holds exactly one bullish_confluence alert for 1h and exactly one
\* oi_change alert for 1h, both critical
C12_ScenarioA ==
    (Evaluated /\ ScenarioA) =>
        /\ price_context.significant_move
        /\ CountOf(all_alerts, "bullish_confluence", "1h") = 1
        /\ CountOf(all_alerts, "oi_change", "1h") = 1
        /\ AllOfPriority(all_alerts, "bullish_confluence", "1h", "critical")
        /\ AllOfPriority(all_alerts, "oi_change", "1h", "critical")
        /\ CountOf(all_alerts, "bearish_confluence", "1h") = 0

\* the scenario evaluated while the other timeframes are quiet
C12_Witness ==
    /\ Evaluated
    /\ ScenarioA
    /\ \A t \in TF \ {"1h"} :
          ~volume_data[t].error /\ volume_data[t].volume_spike_pct = 0
    /\ CountOf(all_alerts, "bullish_confluence", "1h") = 1
    /\ CountOf(all_alerts, "oi_change", "1h") = 1

\* C13: for every timeframe with a valid volume entry, whatever the price
\* context: one volume_spike alert iff volume_spike_pct >= the timeframe's
\* spike threshold, critical iff volume_spike_pct >= twice the threshold and
\* high otherwise; one volume_low alert, medium, iff volume_spike_pct <= the
\* timeframe's low threshold; never both
C13_VolumeRule ==
    Evaluated =>
        \A t \in TF :
            ~volume_data[t].error =>
                LET pct == volume_data[t].volume_spike_pct
                    thr == volume_alert_config[t].spike_threshold
                    low == volume_alert_config[t].low_threshold
                IN  /\ CountOf(all_alerts, "volume_spike", t)
                          = (IF pct >= thr THEN 1 ELSE 0)
                    /\ AllOfPriority(all_alerts, "volume_spike", t,
                                     IF pct >= 2 * thr THEN "critical"
                                     ELSE "high")
                    /\ CountOf(all_alerts, "volume_low", t)
                          = (IF pct <= low THEN 1 ELSE 0)
                    /\ AllOfPriority(all_alerts, "volume_low", t, "medium")
                    /\ CountOf(all_alerts, "volume_spike", t)
                          + CountOf(all_alerts, "volume_low", t) <= 1

\* without a significant move: a medium volume_low alert of one timeframe, a
\* critical volume_spike alert of another and a high one of a third
C13_Witness ==
    /\ Evaluated
    /\ ~price_context.significant_move
    /\ \E n, m, k \in 1..Len(all_alerts) :
          /\ all_alerts[n].type = "volume_low"
          /\ all_alerts[n].priority = "medium"
          /\ all_alerts[m].type = "volume_spike"
          /\ all_alerts[m].priority = "critical"
          /\ all_alerts[k].type = "volume_spike"
          /\ all_alerts[k].priority = "high"

\* C14 as stated: is_volume_spike and the volume rule read one threshold: a
\* valid timeframe has is_volume_spike = true iff a volume_spike alert is
\* emitted for it
C14_SameThreshold ==
    Evaluated =>
        \A t \in TF :
            ~volume_data[t].error =>
                (volume_data[t].is_volume_spike
                    <=> CountOf(all_alerts, "volume_spike", t) = 1)

\* C14 amended: a volume_spike alert is emitted only for a timeframe with
\* is_volume_spike = true, but not for every such timeframe: is_volume_spike
\* is volume_spike_pct >= 50 / 75 / 100 / 50 (15m / 1h / 4h / 1d) while the
\* alert asks for volume_spike_pct >= 100 / 150 / 200 / 100
C14_AlertImpliesSpike ==
    Evaluated =>
        \A t \in TF :
            ~volume_data[t].error =>
                /\ volume_data[t].is_volume_spike
                      <=> volume_data[t].volume_spike_pct
                             >= VOLUME_CONFIGS[t].spike_threshold
                /\ CountOf(all_alerts, "volume_spike", t) = 1
                      => volume_data[t].is_volume_spike
                /\ CountOf(all_alerts, "volume_spike", t) = 1
                      <=> volume_data[t].volume_spike_pct
                             >= volume_alert_config[t].spike_threshold
                /\ volume_alert_config[t].spike_threshold
                      = 2 * VOLUME_CONFIGS[t].spike_threshold

\* a timeframe with is_volume_spike = true, one percent under the rule's
\* threshold, for which no volume_spike alert is emitted
C14_Witness ==
    /\ Evaluated
    /\ \E t \in TF :
          /\ ~volume_data[t].error
          /\ volume_data[t].is_volume_spike
          /\ volume_data[t].volume_spike_pct
                = volume_alert_config[t].spike_threshold - 1
          /\ CountOf(all_alerts, "volume_spike", t) = 0

\* the timeframe has a valid entry in both engines
BothValid(t) == ~ema_data[t].error /\ ~volume_data[t].error

ConfluenceTypes == {"bullish_confluence", "bearish_confluence"}

\* C15: for each timeframe valid in both engines one EMA+volume confluence
\* alert is emitted exactly when |percentage_diff| > 1.5, volume_spike_pct >
\* 100 and significant_move hold: bullish_confluence when the price is above
\* the EMA, bearish_confluence otherwise, never both; critical iff
\* volume_spike_pct > 200 and high otherwise; none for any other timeframe
C15_EmaConfluence ==
    Evaluated =>
        \A t \in TF :
            LET fires == /\ BothValid(t)
                         /\ Abs(ema_data[t].percentage_diff) > 15
                         /\ volume_data[t].volume_spike_pct > 100
                         /\ price_context.significant_move
                prio  == IF volume_data[t].volume_spike_pct > 200
                         THEN "critical" ELSE "high"
            IN  /\ CountOf(all_alerts, "bullish_confluence", t)
                      = (IF fires /\ ema_data[t].above_ema THEN 1 ELSE 0)
                /\ CountOf(all_alerts, "bearish_confluence", t)
                      = (IF fires /\ ~ema_data[t].above_ema THEN 1 ELSE 0)
                /\ AllOfPriority(all_alerts, "bullish_confluence", t, prio)
                /\ AllOfPriority(all_alerts, "bearish_confluence", t, prio)

\* a high bearish_confluence alert of one timeframe and a critical
\* bullish_confluence alert of another in one list
C15_Witness ==
    /\ Evaluated
    /\ \E n, m \in 1..Len(all_alerts) :
          /\ all_alerts[n].type = "bearish_confluence"
          /\ all_alerts[n].priority = "high"
          /\ all_alerts[m].type = "bullish_confluence"
          /\ all_alerts[m].priority = "critical"

\* a timeframe exactly 1.5 % from its EMA, with volume and a significant
\* move, that gets no confluence alert
C15_Boundary ==
    /\ Evaluated
    /\ price_context.significant_move
    /\ \E t \in TF :
          /\ BothValid(t)
          /\ Abs(ema_data[t].percentage_diff) = 15
          /\ volume_data[t].volume_spike_pct > 100
          /\ CountOf(all_alerts, "bullish_confluence", t) = 0

TripleTypes == {"triple_bullish_confluence", "triple_bearish_confluence"}

TripleTimeframes == {"1h", "4h", "1d"}

\* C16: a triple-confluence alert is emitted only for 1h, 4h and 1d and only
\* when significant_move is true; then, for such a timeframe, exactly when it
\* is valid in both engines with |percentage_diff| > 2, volume_spike_pct >
\* 150 and oi_change_1p > 15; it is critical, bullish when the price is above
\* the EMA and bearish otherwise
C16_TripleConfluence ==
    Evaluated =>
        /\ \A n \in 1..Len(all_alerts) :
              all_alerts[n].type \in TripleTypes
                 => /\ all_alerts[n].timeframe \in TripleTimeframes
                    /\ price_context.significant_move
                    /\ all_alerts[n].priority = "critical"
        /\ \A t \in TripleTimeframes :
              LET fires == /\ price_context.significant_move
                           /\ BothValid(t)
                           /\ Abs(ema_data[t].percentage_diff) > 20
                           /\ volume_data[t].volume_spike_pct > 150
                           /\ volume_data[t].oi_change_1p > 15
              IN  /\ CountOf(all_alerts, "triple_bullish_confluence", t)
                        = (IF fires /\ ema_data[t].above_ema THEN 1 ELSE 0)
                  /\ CountOf(all_alerts, "triple_bearish_confluence", t)
                        = (IF fires /\ ~ema_data[t].above_ema THEN 1 ELSE 0)

\* a bearish triple alert in a list, while 15m meets every condition of the
\* rule and gets none
C16_Witness ==
    /\ Evaluated
    /\ \E n \in 1..Len(all_alerts) :
          all_alerts[n].type = "triple_bearish_confluence"
    /\ BothValid("15m")
    /\ Abs(ema_data["15m"].percentage_diff) > 20
    /\ volume_data["15m"].volume_spike_pct > 150
    /\ volume_data["15m"].oi_change_1p > 15
    /\ \A n \in 1..Len(all_alerts) :
          all_alerts[n].type \in TripleTypes
             => all_alerts[n].timeframe # "15m"

\* C17: the divergence rule is ungated: for every timeframe with a valid
\* volume entry, whatever significant_move and above_ema_count are,
\* bearish_divergence yields exactly one medium bearish_divergence alert,
\* potential_reversal exactly one high potential_reversal alert, and any
\* other divergence value no divergence alert
C17_DivergenceUngated ==
    Evaluated =>
        \A t \in TF :
            ~volume_data[t].error =>
                /\ CountOf(all_alerts, "bearish_divergence", t)
                      = (IF volume_data[t].divergence = "bearish_divergence"
                         THEN 1 ELSE 0)
                /\ CountOf(all_alerts, "potential_reversal", t)
                      = (IF volume_data[t].divergence = "potential_reversal"
                         THEN 1 ELSE 0)
                /\ AllOfPriority(all_alerts, "bearish_divergence", t, "medium")
                /\ AllOfPriority(all_alerts, "potential_reversal", t, "high")

\* without a significant move and with no timeframe above its EMA: a medium
\* bearish_divergence alert and a high potential_reversal alert in one list
C17_Witness ==
    /\ Evaluated
    /\ ~price_context.significant_move
    /\ price_context.above_ema_count = 0
    /\ \E n, m \in 1..Len(all_alerts) :
          /\ all_alerts[n].type = "bearish_divergence"
          /\ all_alerts[n].priority = "medium"
          /\ all_alerts[m].type = "potential_reversal"
          /\ all_alerts[m].priority = "high"

MultiTypes == {"multi_tf_bullish", "multi_tf_bearish"}

\* the timeframes valid in both engines
ValidInBoth == {t \in TF : BothValid(t)}

\* the valid timeframes that are volume-spiking
SpikingTimeframes == {t \in ValidInBoth : volume_data[t].is_volume_spike}

\* C18: one multi-timeframe alignment alert, critical, is emitted iff
\* above_ema_count >= 3 and among the timeframes valid in both engines there
\* are at least 3, at least 3 on one side of their EMA and at least 2 with
\* is_volume_spike = true; otherwise none, and never more than one
C18_MultiTimeframe ==
    Evaluated =>
        LET above == {t \in ValidInBoth : ema_data[t].above_ema}
            below == {t \in ValidInBoth : ~ema_data[t].above_ema}
            fires == /\ price_context.above_ema_count >= 3
                     /\ Cardinality(ValidInBoth) >= 3
                     /\ (Cardinality(above) >= 3 \/ Cardinality(below) >= 3)
                     /\ Cardinality(SpikingTimeframes) >= 2
            multi == {n \in 1..Len(all_alerts) :
                         all_alerts[n].type \in MultiTypes}
        IN  /\ Cardinality(multi) = (IF fires THEN 1 ELSE 0)
            /\ \A n \in multi : all_alerts[n].priority = "critical"

\* an alignment alert in a cycle with exactly two volume-spiking timeframes
C18_Witness ==
    /\ Evaluated
    /\ Cardinality(SpikingTimeframes) = 2
    /\ \E n \in 1..Len(all_alerts) :
          /\ all_alerts[n].type = "multi_tf_bullish"
          /\ all_alerts[n].priority = "critical"

NoAlertFor(alerts, t) ==
    \A n \in 1..Len(alerts) : alerts[n].timeframe # t

\* C20 as stated: if either engine reports an error entry for a timeframe,
\* no alert of the cycle has that timeframe
C20_ErrorRemovesTimeframe ==
    Evaluated =>
        \A t \in TF :
            (ema_data[t].error \/ volume_data[t].error)
                => NoAlertFor(all_alerts, t)

\* the alert types of the rules that read the volume engine's result only
VolumeOnlyTypes ==
    {"volume_spike", "volume_low", "oi_change", "oi_surge",
     "bearish_divergence", "potential_reversal"}

\* C20 amended: an error entry of the volume engine for a timeframe leaves
\* no alert of that timeframe in the list.  An error entry of the EMA engine
\* alone removes the timeframe from the confluence, triple and alignment
\* rules only: the volume, OI and divergence rules still emit their alerts
\* for it; an EMA error on 1h also makes significant_move false.  Either way
\* the rules run to their end and the list is built from what is left
C20_VolumeErrorRemovesTimeframe ==
    Evaluated =>
        /\ \A t \in TF :
              /\ volume_data[t].error => NoAlertFor(all_alerts, t)
              /\ ema_data[t].error =>
                    \A n \in 1..Len(all_alerts) :
                        all_alerts[n].timeframe = t
                            => all_alerts[n].type \in VolumeOnlyTypes
              /\ (ema_data[t].error /\ ~volume_data[t].error) =>
                    /\ CountOf(all_alerts, "volume_spike", t)
                          = (IF volume_data[t].volume_spike_pct
                                  >= volume_alert_config[t].spike_threshold
                             THEN 1 ELSE 0)
                    /\ CountOf(all_alerts, "volume_low", t)
                          = (IF VolumeIsLow(t) THEN 1 ELSE 0)
                    /\ CountOf(all_alerts, "potential_reversal", t)
                          = (IF volume_data[t].divergence
                                  = "potential_reversal"
                             THEN 1 ELSE 0)
                    /\ OiGatePasses(t) =>
                          CountOf(all_alerts, "oi_change", t)
                             = (IF Abs(volume_data[t].oi_change_1p) >= 25
                                THEN 1 ELSE 0)
        /\ ema_data["1h"].error => ~price_context.significant_move
        /\ (\A t \in TF : volume_data[t].error) => all_alerts = <<>>

\* a cycle in which the EMA engine alone failed on a timeframe that gets a
\* volume_spike and an oi_change alert, while another timeframe is valid in
\* both engines
C20_Witness ==
    /\ Evaluated
    /\ \E t, u \in TF :
          /\ ema_data[t].error
          /\ ~volume_data[t].error
          /\ CountOf(all_alerts, "volume_spike", t) = 1
          /\ CountOf(all_alerts, "oi_change", t) = 1
          /\ BothValid(u)
          /\ ~NoAlertFor(all_alerts, u)

\* C27: no cycle emits a multi_tf_bearish alert: the alignment rule runs
\* only when above_ema_count >= 3, which leaves at most one of the four
\* timeframes under its EMA, so that its bearish branch (three valid
\* timeframes under their EMA) never fires
C27_NoBearishAlignment ==
    Evaluated =>
        /\ \A n \in 1..Len(all_alerts) :
              all_alerts[n].type # "multi_tf_bearish"
        /\ price_context.above_ema_count >= 3 =>
              Cardinality({t \in TF : ~ema_data[t].error
                                      /\ ~ema_data[t].above_ema}) <= 1

\* a cycle with three valid timeframes under their EMA and three of them
\* volume-spiking: everything the bearish branch asks for, and no alignment
\* alert in the list
C27_Witness ==
    /\ Evaluated
    /\ Cardinality({t \in ValidInBoth : ~ema_data[t].above_ema}) >= 3
    /\ Cardinality(SpikingTimeframes) >= 2
    /\ \A n \in 1..Len(all_alerts) : all_alerts[n].type \notin MultiTypes

\* C28: when the 1h EMA entry is an error, significant_move is false and the
\* list holds no oi_change, oi_surge, bullish / bearish confluence or triple
\* confluence alert of any timeframe: only volume, divergence and
\* multi-timeframe alerts
C28_NoContextWithout1h ==
    (Evaluated /\ ema_data["1h"].error) =>
        /\ ~price_context.significant_move
        /\ \A n \in 1..Len(all_alerts) :
              all_alerts[n].type \in
                 {"volume_spike", "volume_low", "bearish_divergence",
                  "potential_reversal"} \cup MultiTypes

\* the 1h EMA entry in error while 15m is valid, 2.5 % above its EMA, with
\* volume 250 % over its average and open interest up 30 %: the list holds a
\* volume_spike alert for 15m and an alignment alert, nothing else for 15m
C28_Witness ==
    /\ Evaluated
    /\ ema_data["1h"].error
    /\ BothValid("15m")
    /\ ema_data["15m"].percentage_diff = 25
    /\ volume_data["15m"].volume_spike_pct = 250
    /\ volume_data["15m"].oi_change_1p = 30
    /\ CountOf(all_alerts, "volume_spike", "15m") = 1
    /\ CountOf(all_alerts, "multi_tf_bullish", "multi") = 1

\* C29: the dedupe keys of the alerts of one cycle are pairwise distinct, and
\* so are their (type, timeframe) pairs
C29_KeysDistinct ==
    Evaluated =>
        \A i, j \in 1..Len(all_alerts) :
            i # j => /\ all_alerts[i].alert_key # all_alerts[j].alert_key
                     /\ <<all_alerts[i].type, all_alerts[i].timeframe>>
                           # <<all_alerts[j].type, all_alerts[j].timeframe>>

\* a list with two alerts of one type and one band for different timeframes
\* and two alerts of different types for one timeframe
C29_Witness ==
    /\ Evaluated
    /\ \E i, j, k \in 1..Len(all_alerts) :
          /\ all_alerts[i].type = all_alerts[j].type
          /\ all_alerts[i].timeframe # all_alerts[j].timeframe
          /\ all_alerts[i].alert_key[3] = all_alerts[j].alert_key[3]
          /\ all_alerts[i].alert_key[3] # NoBand
          /\ all_alerts[k].timeframe = all_alerts[i].timeframe
          /\ all_alerts[k].type # all_alerts[i].type

\* C30: whenever a triple-confluence alert is emitted for a timeframe, the
\* EMA+volume confluence alert of the same direction is emitted for that
\* timeframe in the same cycle
C30_TripleImpliesConfluence ==
    Evaluated =>
        \A t \in TF :
            /\ CountOf(all_alerts, "triple_bullish_confluence", t) >= 1
                  => CountOf(all_alerts, "bullish_confluence", t) = 1
            /\ CountOf(all_alerts, "triple_bearish_confluence", t) >= 1
                  => CountOf(all_alerts, "bearish_confluence", t) = 1

\* a bearish triple alert at the lowest volume of the grid that fires it,
\* with the bearish confluence alert of the timeframe, graded high
C30_Witness ==
    /\ Evaluated
    /\ \E t \in TF :
          /\ volume_data[t].volume_spike_pct = 151
          /\ CountOf(all_alerts, "triple_bearish_confluence", t) = 1
          /\ CountOf(all_alerts, "bearish_confluence", t) = 1
          /\ AllOfPriority(all_alerts, "bearish_confluence", t, "high")

----------------------------------------------------------------------------
(* Properties of the open-interest computation (specification SpecOI) *)

\* neither history endpoint delivers an OI value
NoHistory(src) ==
    \/ src.h1_ok /\ src.h1 = <<>>
    \/ ~src.h1_ok /\ (~src.h2_ok \/ src.h2 = <<>>)

\* C8: when the data source supplies no OI history for a timeframe, its
\* oi_change_1p and oi_change_5p are 0 and the batch holds no oi_change,
\* oi_surge or triple-confluence alert for it
C8_NoInventedHistory ==
    (pc \in {"rules", "notify"} /\ NoHistory(oi_src)) =>
        /\ volume_data[oi_src.tf].oi_change_1p = 0
        /\ volume_data[oi_src.tf].oi_change_5p = 0
        /\ \A n \in 1..Len(all_alerts) :
              all_alerts[n].timeframe = oi_src.tf
                 => all_alerts[n].type \notin
                       OiTypes \cup {"triple_bullish_confluence",
                                     "triple_bearish_confluence"}

====
